---- MODULE Spec2Model ----
(***************************************************************************)
(* FinFlow (kouma-root/Vibe_code): the relational store behind the         *)
(* portfolio tracker (User, Token, Portfolio, Investment, Transaction)     *)
(* with the constraints declared in finflow/core/models.py, the ORM        *)
(* operations the test-suite performs on it, and the REST handlers of      *)
(* finflow/core/views.py with the serializers of                           *)
(* finflow/core/serializers.py.                                            *)
(*                                                                         *)
(* A table is a set of rows (records with an id).  A new row gets a primary *)
(* key that no live row carries; a new token gets a key that was never     *)
(* handed out before.  Every handler is a function from the stored state   *)
(* and the request to a result (status, escaped exception, ids in the      *)
(* body, new stored state), and one atomic step applies it:                *)
(* authentication, permission check, object lookup, validation, save and   *)
(* response.  The variables are the stored state alone; what a request is  *)
(* answered is the value of its handler in the state it arrives in.        *)
(***************************************************************************)
EXTENDS Integers, FiniteSets, Sequences, TLC

\* ------------------------------------------------------------------ bounds
MaxUsers == 2
MaxPortfolios == 2
MaxInvestments == 2
MaxTransactions == 1
MaxConnections == 2
MaxReceived == 2
MaxUpdates == 2
MaxTokens == 1

\* ------------------------------------------------------- program constants
HTTP_200_OK == 200
HTTP_201_CREATED == 201
HTTP_204_NO_CONTENT == 204
HTTP_400_BAD_REQUEST == 400
HTTP_401_UNAUTHORIZED == 401
HTTP_403_FORBIDDEN == 403
HTTP_404_NOT_FOUND == 404
HTTP_500_INTERNAL_SERVER_ERROR == 500

\* request.user of a request that no authenticator accepted (AnonymousUser)
NoUser == 0
\* a request without an Authorization header
NoCred == 0
\* the foreign key of a row not yet saved
NoPk == 0
\* the status of a direct ORM call: there is no HTTP response
NoStatus == 0

\* --------------------------------------------------------- input alphabets
Names == {"Growth", "Income"}
InputSymbols == {"AAPL", " aapl"}
TRANSACTION_TYPE_CHOICES == {"buy", "sell", "dividend", "split", "transfer"}
InputTransactionTypes == {"buy", "hold"}

UserIds == 1..MaxUsers
PortfolioIds == 1..MaxPortfolios
InvestmentIds == 1..MaxInvestments
TransactionIds == 1..MaxTransactions
TokenKeys == 1..MaxTokens
Creds == {NoCred} \cup TokenKeys

VARIABLES
    users,          \* auth_user: set of user ids
    accounts,       \* auth_user: rows [id, username, email, password, is_active]
    sessions,       \* django_session: ids of the users a logged-in session belongs to
    now,            \* timezone.now(), in ticks
    tokens,         \* authtoken_token: rows [key, user]
    tokenSeq,       \* number of token keys handed out so far
    portfolios,     \* core_portfolio: rows [id, user, name, is_active, created_at]
    investments,    \* core_investment: rows [id, portfolio, symbol, quantity, purchase_price]
    transactions,   \* core_transaction: rows [id, investment, transaction_type]
    consumers,      \* PortfolioConsumer instances, one per WebSocket connection
    cache,          \* django.core.cache: entries [key, value]
    request,        \* the Celery task request the worker holds
    logs            \* the logs directory: whether it exists, and its files

vars == <<users, accounts, sessions, now, tokens, tokenSeq, portfolios, investments,
          transactions, consumers, cache, request, logs>>

\* ------------------------------------------------------------ the database
\* The stored state as one value
Cur ==
    [users |-> users, accounts |-> accounts, sessions |-> sessions,
     tokens |-> tokens, tokenSeq |-> tokenSeq,
     portfolios |-> portfolios, investments |-> investments,
     transactions |-> transactions]

Ids(rows) == {r.id : r \in rows}

Row(rows, id) == CHOOSE r \in rows : r.id = id

\* The primary key of a new row: the least id that no live row carries
NextId(ids) == CHOOSE i \in 1..(Cardinality(ids) + 1) :
                  /\ i \notin ids
                  /\ \A j \in 1..(i - 1) : j \in ids

\* A UniqueConstraint(fields=['name']): names unique across all users
unique_portfolio_name(rows) ==
    \A p, q \in rows : p.name = q.name => p.id = q.id

\* Portfolio without its UniqueConstraint: every content is accepted
no_unique_user_portfolio_name(rows) == TRUE

\* Portfolio.Meta.constraints: UniqueConstraint(fields=['user', 'name'])
unique_user_portfolio_name(rows) ==
    \A p, q \in rows : (p.user = q.user /\ p.name = q.name) => p.id = q.id

\* Investment without its UniqueConstraint: every content is accepted
no_unique_portfolio_symbol(rows) == TRUE

\* Investment.Meta.constraints: UniqueConstraint(fields=['portfolio', 'symbol'])
unique_portfolio_symbol(rows) ==
    \A i, j \in rows : (i.portfolio = j.portfolio /\ i.symbol = j.symbol) => i.id = j.id

\* Portfolio.user = ForeignKey(User): the referenced row must exist
PortfolioUserFk(rows, us) == \A p \in rows : p.user \in us

\* Investment.portfolio = ForeignKey(Portfolio)
InvestmentPortfolioFk(rows, ps) == \A i \in rows : i.portfolio \in Ids(ps)

\* Transaction.investment = ForeignKey(Investment)
TransactionInvestmentFk(rows, is) == \A t \in rows : t.investment \in Ids(is)

\* What the database accepts as the new content of core_portfolio
PortfolioWriteOk(rows) ==
    /\ unique_user_portfolio_name(rows)
    /\ PortfolioUserFk(rows, users)

\* What the database accepts as the new content of core_investment
InvestmentWriteOk(rows) ==
    /\ unique_portfolio_symbol(rows)
    /\ InvestmentPortfolioFk(rows, portfolios)

\* What the database accepts as the new content of core_transaction
TransactionWriteOk(rows) == TransactionInvestmentFk(rows, investments)

\* Model.save() of an existing row: the row with that id is replaced
Replace(rows, row) == {r \in rows : r.id # row.id} \cup {row}

\* on_delete=models.CASCADE, User -> Token (rest_framework.authtoken):
\* the tokens that survive when only the users `us` are left
CascadeTokens(us) == {t \in tokens : t.user \in us}

\* on_delete=models.CASCADE, User -> Portfolio: the portfolios that survive
CascadePortfolios(us) == {p \in portfolios : p.user \in us}

\* on_delete=models.DO_NOTHING, Portfolio -> Investment: every row survives
DoNothingInvestments(ps) == investments

\* on_delete=models.CASCADE, Portfolio -> Investment
CascadeInvestments(ps) == {i \in investments : i.portfolio \in Ids(ps)}

\* on_delete=models.CASCADE, Investment -> Transaction
CascadeTransactions(is) == {t \in transactions : t.investment \in Ids(is)}

\* The stored state after user.delete()
DeleteUser(u) ==
    LET us == users \ {u}
        ps == CascadePortfolios(us)
        is == CascadeInvestments(ps)
    IN  [Cur EXCEPT !.users = us, !.accounts = {a \in accounts : a.id \in us},
                    !.sessions = sessions \cap us,
                    !.tokens = CascadeTokens(us), !.portfolios = ps,
                    !.investments = is, !.transactions = CascadeTransactions(is)]

\* The stored state after portfolio.delete()
DeletePortfolio(id) ==
    LET ps == {p \in portfolios : p.id # id}
        is == CascadeInvestments(ps)
    IN  [Cur EXCEPT !.portfolios = ps, !.investments = is,
                    !.transactions = CascadeTransactions(is)]

\* The stored state after investment.delete()
DeleteInvestment(id) ==
    LET is == {i \in investments : i.id # id}
    IN  [Cur EXCEPT !.investments = is, !.transactions = CascadeTransactions(is)]

\* ------------------------------------------------------- request, response
Has(data, f) == f \in DOMAIN data

\* What a handler or an ORM call comes to: the status, the exception that
\* escaped (if any), the ids of the objects in the body or return value,
\* and the stored state it leaves
Result(status, exc, ids, d) == [status |-> status, exc |-> exc, ids |-> ids, db |-> d]

\* A result that stores nothing
NoChange(status, exc, ids) == Result(status, exc, ids, Cur)

\* The bounds of the model: table sizes and the number of keys handed out
WithinBounds(d) ==
    /\ d.users \subseteq UserIds
    /\ Ids(d.portfolios) \subseteq PortfolioIds
    /\ Ids(d.investments) \subseteq InvestmentIds
    /\ Ids(d.transactions) \subseteq TransactionIds
    /\ d.tokenSeq <= MaxTokens

\* One exchange or ORM call: the stored state becomes the one of its result
Apply(res) ==
    /\ users' = res.db.users
    /\ accounts' = res.db.accounts
    /\ sessions' = res.db.sessions
    /\ now' = now
    /\ tokens' = res.db.tokens
    /\ tokenSeq' = res.db.tokenSeq
    /\ portfolios' = res.db.portfolios
    /\ investments' = res.db.investments
    /\ transactions' = res.db.transactions
    /\ consumers' = consumers
    /\ UNCHANGED <<cache, request, logs>>

\* No task has been sent yet
NoRequest ==
    [task |-> "", user_id |-> NoPk, portfolio_id |-> NoPk, state |-> "NONE",
     retries |-> 0, runs |-> 0, countdown |-> 0, status |-> "", count |-> 0]

\* The WebSocket connections to ws/portfolio/
Connections == 1..MaxConnections

\* A WebSocket connection nobody has opened yet: no consumer instance exists
NoConsumer ==
    [step |-> 0, in_group |-> FALSE, accepted |-> FALSE, closed |-> FALSE,
     sent |-> <<>>, tasks |-> <<>>, received |-> 0]

Init ==
    /\ users = {}
    /\ accounts = {}
    /\ sessions = {}
    /\ now = 0
    /\ tokens = {}
    /\ tokenSeq = 0
    /\ portfolios = {}
    /\ investments = {}
    /\ transactions = {}
    /\ consumers = [c \in Connections |-> NoConsumer]
    /\ cache = {}
    /\ request = NoRequest
    /\ logs = [exists |-> FALSE, files |-> {}]

\* ------------------------------------------------------------ ORM calls
\* AbstractUser.username: unique=True (an exact, case-sensitive match)
unique_username(rows) ==
    \A a, b \in rows : a.username = b.username => a.id = b.id

\* User.objects.create_user(username=..., email=..., password=...): the new
\* user is active; the password is stored hashed and only ever compared
CreateUserResult(username, email, password) ==
    LET id == NextId(users)
        rows == accounts \cup {[id |-> id, username |-> username, email |-> email,
                                 password |-> password, is_active |-> TRUE]}
    IN  IF unique_username(rows)
        THEN Result(NoStatus, "", {id}, [Cur EXCEPT !.users = users \cup {id},
                                                     !.accounts = rows])
        ELSE NoChange(NoStatus, "IntegrityError", {})

\* The users the API tests set up: testuser, otheruser, ...
TestUsers ==
    <<[username |-> "testuser", email |-> "test@example.com"],
      [username |-> "otheruser", email |-> "other@example.com"],
      [username |-> "thirduser", email |-> "third@example.com"],
      [username |-> "fourthuser", email |-> "fourth@example.com"]>>

\* User.objects.create_user(...) as in the setUp of the API tests
UserCreateResult ==
    LET user_data == TestUsers[NextId(users)]
    IN  CreateUserResult(user_data.username, user_data.email, "testpass123")

\* user.delete(): the delete collector follows every CASCADE relation
UserDeleteResult(u) == Result(NoStatus, "", {}, DeleteUser(u))

\* Token.objects.create(user=user) whatever tokens there are
TokenAlwaysCreateResult(u) ==
    Result(NoStatus, "", {},
           [Cur EXCEPT !.tokens = tokens \cup {[key |-> tokenSeq + 1, user |-> u]},
                       !.tokenSeq = tokenSeq + 1])

\* Token.objects.get_or_create(user=user): at most one token per user
\* (Token.user is one-to-one); a new token gets a key never handed out before
TokenGetOrCreateResult(u) ==
    IF \E t \in tokens : t.user = u
    THEN NoChange(NoStatus, "", {})
    ELSE Result(NoStatus, "", {},
                [Cur EXCEPT !.tokens = tokens \cup {[key |-> tokenSeq + 1, user |-> u]},
                            !.tokenSeq = tokenSeq + 1])

\* Portfolio.objects.create(user=..., name=..., is_active=...)
OrmPortfolioCreateResult(u, n, a) ==
    LET id == NextId(Ids(portfolios))
        rows == portfolios \cup {[id |-> id, user |-> u, name |-> n, is_active |-> a,
                                  created_at |-> now]}
    IN  IF PortfolioWriteOk(rows)
        THEN Result(NoStatus, "", {id}, [Cur EXCEPT !.portfolios = rows])
        ELSE NoChange(NoStatus, "IntegrityError", {})

\* portfolio.name = ...; portfolio.is_active = ...; portfolio.save()
OrmPortfolioSaveResult(id, n, a) ==
    LET rows == Replace(portfolios, [Row(portfolios, id) EXCEPT !.name = n, !.is_active = a])
    IN  IF PortfolioWriteOk(rows)
        THEN Result(NoStatus, "", {id}, [Cur EXCEPT !.portfolios = rows])
        ELSE NoChange(NoStatus, "IntegrityError", {})

\* portfolio.delete()
OrmPortfolioDeleteResult(id) == Result(NoStatus, "", {}, DeletePortfolio(id))

\* Investment.objects.create(portfolio=..., symbol=..., quantity=..., purchase_price=...)
OrmInvestmentCreateResult(pid, s, q, pr) ==
    LET id == NextId(Ids(investments))
        rows == investments \cup {[id |-> id, portfolio |-> pid, symbol |-> s,
                                   quantity |-> q, purchase_price |-> pr]}
    IN  IF InvestmentWriteOk(rows)
        THEN Result(NoStatus, "", {id}, [Cur EXCEPT !.investments = rows])
        ELSE NoChange(NoStatus, "IntegrityError", {})

\* investment.symbol = ...; investment.save()
OrmInvestmentSaveResult(id, s) ==
    LET rows == Replace(investments, [Row(investments, id) EXCEPT !.symbol = s])
    IN  IF InvestmentWriteOk(rows)
        THEN Result(NoStatus, "", {id}, [Cur EXCEPT !.investments = rows])
        ELSE NoChange(NoStatus, "IntegrityError", {})

\* investment.delete()
OrmInvestmentDeleteResult(id) == Result(NoStatus, "", {}, DeleteInvestment(id))

\* Transaction.objects.create(investment=..., transaction_type=...)
OrmTransactionCreateResult(iid, ty) ==
    LET id == NextId(Ids(transactions))
        rows == transactions \cup {[id |-> id, investment |-> iid, transaction_type |-> ty]}
    IN  IF TransactionWriteOk(rows)
        THEN Result(NoStatus, "", {id}, [Cur EXCEPT !.transactions = rows])
        ELSE NoChange(NoStatus, "IntegrityError", {})

UserCreate ==
        /\ NextId(users) \in UserIds
        /\ LET res == UserCreateResult
           IN  WithinBounds(res.db) /\ Apply(res)

UserDelete == \E u \in users :
        LET res == UserDeleteResult(u)
        IN  WithinBounds(res.db) /\ Apply(res)

TokenGetOrCreate ==
    \E u \in users :
        LET res == TokenGetOrCreateResult(u)
        IN  WithinBounds(res.db) /\ Apply(res)

OrmPortfolioCreate ==
    \E u \in UserIds, n \in Names, a \in BOOLEAN :
        LET res == OrmPortfolioCreateResult(u, n, a)
        IN  WithinBounds(res.db) /\ Apply(res)

OrmPortfolioSave ==
    \E p \in portfolios, n \in Names, a \in BOOLEAN :
        LET res == OrmPortfolioSaveResult(p.id, n, a)
        IN  WithinBounds(res.db) /\ Apply(res)

OrmPortfolioDelete ==
    \E p \in portfolios :
        LET res == OrmPortfolioDeleteResult(p.id)
        IN  WithinBounds(res.db) /\ Apply(res)

OrmInvestmentCreate ==
    \E pid \in PortfolioIds, s \in InputSymbols :
        LET res == OrmInvestmentCreateResult(pid, s, 1, 1)
        IN  WithinBounds(res.db) /\ Apply(res)

OrmInvestmentSave ==
    \E i \in investments, s \in InputSymbols :
        LET res == OrmInvestmentSaveResult(i.id, s)
        IN  WithinBounds(res.db) /\ Apply(res)

OrmInvestmentDelete ==
    \E i \in investments :
        LET res == OrmInvestmentDeleteResult(i.id)
        IN  WithinBounds(res.db) /\ Apply(res)

OrmTransactionCreate ==
    \E iid \in InvestmentIds :
        LET res == OrmTransactionCreateResult(iid, "buy")
        IN  WithinBounds(res.db) /\ Apply(res)

\* ------------------------------------------------- authentication, access
\* TokenAuthentication: request.user is the user of the token whose key the
\* Authorization header carries; AnonymousUser when there is no such token
\* and that user is active; AnonymousUser otherwise.  `d` is the stored state
AuthenticateIn(d, cred) ==
    LET found == {t \in d.tokens :
                    /\ t.key = cred
                    /\ \E a \in d.accounts : a.id = t.user /\ a.is_active}
    IN  IF found # {} THEN (CHOOSE t \in found : TRUE).user ELSE NoUser

\* request.user of a request that arrives now
Authenticate(cred) == AuthenticateIn(Cur, cred)

\* permission_classes = [AllowAny]
AllowAny(user) == TRUE

\* permission_classes = [IsAuthenticated]
IsAuthenticated(user) == user # NoUser

\* The status of a request that IsAuthenticated turns away
NotAuthenticatedStatus == HTTP_403_FORBIDDEN

\* The response to a request that IsAuthenticated turns away
NotAuthenticated == NoChange(NotAuthenticatedStatus, "", {})

\* A get_queryset without the filter: Portfolio.objects.all()
PortfolioQuerysetAll(user) == portfolios

\* PortfolioViewSet.get_queryset
PortfolioQueryset(user) == {p \in portfolios : p.user = user}

\* A get_queryset without the filter: Investment.objects.all()
InvestmentQuerysetAll(user) == investments

\* InvestmentViewSet.get_queryset: filter(portfolio__user=request.user)
InvestmentQueryset(user) ==
    {i \in investments : i.portfolio \in Ids(PortfolioQueryset(user))}

\* TransactionViewSet.get_queryset: filter(investment__portfolio__user=request.user)
TransactionQueryset(user) ==
    {t \in transactions : t.investment \in Ids(InvestmentQueryset(user))}

\* ------------------------------------------------------ PortfolioViewSet
\* Request bodies of the portfolio endpoints.  'user' is not a field of
\* PortfolioCreateSerializer or PortfolioUpdateSerializer; a client may send it
PortfolioBodies ==
    [name : Names] \cup [is_active : BOOLEAN] \cup [name : Names, user : UserIds]

\* GET /api/portfolios/
PortfolioListResult(cred) ==
    LET user == Authenticate(cred) IN
    IF ~IsAuthenticated(user) THEN NotAuthenticated
    ELSE NoChange(HTTP_200_OK, "", Ids(PortfolioQueryset(user)))

\* GET /api/portfolios/{pk}/
PortfolioRetrieveResult(cred, pk) ==
    LET user == Authenticate(cred) IN
    IF ~IsAuthenticated(user) THEN NotAuthenticated
    ELSE IF pk \notin Ids(PortfolioQueryset(user)) THEN NoChange(HTTP_404_NOT_FOUND, "", {})
    ELSE NoChange(HTTP_200_OK, "", {pk})

\* A perform_create that takes the owner from the body when it names one
PerformCreateUserFromBody(user, data) == IF Has(data, "user") THEN data.user ELSE user

\* PortfolioViewSet.perform_create: serializer.save(user=self.request.user)
PerformCreateUser(user, data) == user

\* POST /api/portfolios/ (PortfolioCreateSerializer: name is required, no
\* uniqueness validator since 'user' is no field of the serializer)
PortfolioCreateResult(cred, data) ==
    LET user == Authenticate(cred) IN
    IF ~IsAuthenticated(user) THEN NotAuthenticated
    ELSE IF ~Has(data, "name") THEN NoChange(HTTP_400_BAD_REQUEST, "", {})
    ELSE LET id == NextId(Ids(portfolios))
             row == [id |-> id, user |-> PerformCreateUser(user, data), name |-> data.name,
                     is_active |-> IF Has(data, "is_active") THEN data.is_active ELSE TRUE,
                     created_at |-> now]
             rows == portfolios \cup {row}
         IN  IF PortfolioWriteOk(rows)
             THEN Result(HTTP_201_CREATED, "", {id}, [Cur EXCEPT !.portfolios = rows])
             ELSE NoChange(HTTP_500_INTERNAL_SERVER_ERROR, "IntegrityError", {})

\* PortfolioUpdateSerializer.validate_name
validate_name(user, instance, value) ==
    ~\E p \in portfolios : p.user = user /\ p.name = value /\ p.id # instance.id

\* PortfolioUpdateSerializer.is_valid: name is required unless the update is partial
PortfolioUpdateValid(user, instance, data, partial) ==
    /\ partial \/ Has(data, "name")
    /\ Has(data, "name") => validate_name(user, instance, data.name)

\* ModelSerializer.update: the fields of the serializer that the body carries
PortfolioUpdated(instance, data) ==
    [instance EXCEPT !.name = IF Has(data, "name") THEN data.name ELSE @,
                     !.is_active = IF Has(data, "is_active") THEN data.is_active ELSE @]

\* PUT (partial = FALSE) and PATCH (partial = TRUE) /api/portfolios/{pk}/
PortfolioUpdateResult(cred, pk, data, partial) ==
    LET user == Authenticate(cred) IN
    IF ~IsAuthenticated(user) THEN NotAuthenticated
    ELSE IF pk \notin Ids(PortfolioQueryset(user)) THEN NoChange(HTTP_404_NOT_FOUND, "", {})
    ELSE LET instance == Row(portfolios, pk)
             rows == Replace(portfolios, PortfolioUpdated(instance, data))
         IN  IF ~PortfolioUpdateValid(user, instance, data, partial)
             THEN NoChange(HTTP_400_BAD_REQUEST, "", {})
             ELSE IF instance.user # user
             THEN NoChange(HTTP_200_OK, "", {pk})      \* perform_update saves nothing
             ELSE IF PortfolioWriteOk(rows)
             THEN Result(HTTP_200_OK, "", {pk}, [Cur EXCEPT !.portfolios = rows])
             ELSE NoChange(HTTP_500_INTERNAL_SERVER_ERROR, "IntegrityError", {})

\* DELETE /api/portfolios/{pk}/
PortfolioDestroyResult(cred, pk) ==
    LET user == Authenticate(cred) IN
    IF ~IsAuthenticated(user) THEN NotAuthenticated
    ELSE IF pk \notin Ids(PortfolioQueryset(user)) THEN NoChange(HTTP_404_NOT_FOUND, "", {})
    ELSE IF Row(portfolios, pk).user # user
    THEN NoChange(HTTP_204_NO_CONTENT, "", {})         \* perform_destroy deletes nothing
    ELSE Result(HTTP_204_NO_CONTENT, "", {}, DeletePortfolio(pk))

\* ----------------------------------------------------- InvestmentViewSet
\* str.strip on the symbols of the input alphabet
strip(value) == IF value = " aapl" THEN "aapl" ELSE value

\* str.upper on the symbols of the input alphabet
upper(value) == IF value = "aapl" THEN "AAPL" ELSE value

\* InvestmentSerializer.validate_symbol: return value.strip().upper()
validate_symbol(value) == upper(strip(value))

\* InvestmentSerializer.validate_quantity: value <= 0 is an error
validate_quantity(value) == value > 0

\* InvestmentSerializer.validate_purchase_price: value <= 0 is an error
validate_purchase_price(value) == value > 0

\* Request bodies of the investment endpoints: complete ones, one with a
\* quantity and one with a price that validation refuses, and partial ones
InvestmentBodies ==
    [portfolio : PortfolioIds, symbol : InputSymbols, quantity : {1}, purchase_price : {1}]
        \cup {[portfolio |-> 1, symbol |-> "AAPL", quantity |-> 0, purchase_price |-> 1],
              [portfolio |-> 1, symbol |-> "AAPL", quantity |-> 1, purchase_price |-> 0]}
        \cup [symbol : InputSymbols] \cup [portfolio : PortfolioIds]

\* InvestmentSerializer field validation: every writable field is required
\* unless the update is partial; 'portfolio' is a PrimaryKeyRelatedField over
\* Portfolio.objects.all()
InvestmentFieldsValid(data, partial) ==
    /\ partial \/ (/\ Has(data, "portfolio") /\ Has(data, "symbol")
                   /\ Has(data, "quantity") /\ Has(data, "purchase_price"))
    /\ Has(data, "portfolio") => data.portfolio \in Ids(portfolios)
    /\ Has(data, "quantity") => validate_quantity(data.quantity)
    /\ Has(data, "purchase_price") => validate_purchase_price(data.purchase_price)

\* The row a valid body describes, on top of `instance`
InvestmentValidated(instance, data) ==
    [instance EXCEPT
        !.portfolio = IF Has(data, "portfolio") THEN data.portfolio ELSE @,
        !.symbol = IF Has(data, "symbol") THEN validate_symbol(data.symbol) ELSE @,
        !.quantity = IF Has(data, "quantity") THEN data.quantity ELSE @,
        !.purchase_price = IF Has(data, "purchase_price") THEN data.purchase_price ELSE @]

\* The UniqueTogetherValidator that ModelSerializer derives from
\* unique_portfolio_symbol: no other row has this portfolio and symbol
UniqueTogetherValidator(row) ==
    ~\E i \in investments :
        i.id # row.id /\ i.portfolio = row.portfolio /\ i.symbol = row.symbol

\* InvestmentSerializer.is_valid
InvestmentValid(instance, data, partial) ==
    /\ InvestmentFieldsValid(data, partial)
    /\ UniqueTogetherValidator(InvestmentValidated(instance, data))

\* A row not yet saved
NewInvestment ==
    [id |-> NextId(Ids(investments)), portfolio |-> NoPk, symbol |-> "",
     quantity |-> 0, purchase_price |-> 0]

\* GET /api/investments/
InvestmentListResult(cred) ==
    LET user == Authenticate(cred) IN
    IF ~IsAuthenticated(user) THEN NotAuthenticated
    ELSE NoChange(HTTP_200_OK, "", Ids(InvestmentQueryset(user)))

\* GET /api/investments/{pk}/
InvestmentRetrieveResult(cred, pk) ==
    LET user == Authenticate(cred) IN
    IF ~IsAuthenticated(user) THEN NotAuthenticated
    ELSE IF pk \notin Ids(InvestmentQueryset(user)) THEN NoChange(HTTP_404_NOT_FOUND, "", {})
    ELSE NoChange(HTTP_200_OK, "", {pk})

\* A perform_create that looks the portfolio up by id alone
PerformCreatePortfolioFoundById(user, portfolio_id) == portfolio_id \in Ids(portfolios)

\* InvestmentViewSet.perform_create:
\* Portfolio.objects.get(id=portfolio_id, user=self.request.user) finds a row
PerformCreatePortfolioFound(user, portfolio_id) ==
    portfolio_id \in Ids(PortfolioQueryset(user))

\* InvestmentViewSet.perform_create, Portfolio.DoesNotExist: the Response the
\* method returns is dropped by CreateModelMixin.create, which goes on to
\* answer 201 with serializer.data
PerformCreateDoesNotExistStatus == HTTP_201_CREATED

\* POST /api/investments/
InvestmentCreateResult(cred, data) ==
    LET user == Authenticate(cred) IN
    IF ~IsAuthenticated(user) THEN NotAuthenticated
    ELSE IF ~InvestmentValid(NewInvestment, data, FALSE)
    THEN NoChange(HTTP_400_BAD_REQUEST, "", {})
    ELSE IF ~PerformCreatePortfolioFound(user, data.portfolio)
    THEN NoChange(PerformCreateDoesNotExistStatus, "", {})
    ELSE LET row == InvestmentValidated(NewInvestment, data)
             rows == investments \cup {row}
         IN  IF InvestmentWriteOk(rows)
             THEN Result(HTTP_201_CREATED, "", {row.id}, [Cur EXCEPT !.investments = rows])
             ELSE NoChange(HTTP_500_INTERNAL_SERVER_ERROR, "IntegrityError", {})

\* PUT (partial = FALSE) and PATCH (partial = TRUE) /api/investments/{pk}/
InvestmentUpdateResult(cred, pk, data, partial) ==
    LET user == Authenticate(cred) IN
    IF ~IsAuthenticated(user) THEN NotAuthenticated
    ELSE IF pk \notin Ids(InvestmentQueryset(user)) THEN NoChange(HTTP_404_NOT_FOUND, "", {})
    ELSE LET instance == Row(investments, pk)
             rows == Replace(investments, InvestmentValidated(instance, data))
         IN  IF ~InvestmentValid(instance, data, partial)
             THEN NoChange(HTTP_400_BAD_REQUEST, "", {})
             ELSE IF InvestmentWriteOk(rows)
             THEN Result(HTTP_200_OK, "", {pk}, [Cur EXCEPT !.investments = rows])
             ELSE NoChange(HTTP_500_INTERNAL_SERVER_ERROR, "IntegrityError", {})

\* DELETE /api/investments/{pk}/
InvestmentDestroyResult(cred, pk) ==
    LET user == Authenticate(cred) IN
    IF ~IsAuthenticated(user) THEN NotAuthenticated
    ELSE IF pk \notin Ids(InvestmentQueryset(user)) THEN NoChange(HTTP_404_NOT_FOUND, "", {})
    ELSE Result(HTTP_204_NO_CONTENT, "", {}, DeleteInvestment(pk))

\* POST /api/portfolios/{pk}/add_investment/: the body is validated as it
\* stands (with the portfolio it names), then saved into the portfolio of the URL
AddInvestmentResult(cred, pk, data) ==
    LET user == Authenticate(cred) IN
    IF ~IsAuthenticated(user) THEN NotAuthenticated
    ELSE IF pk \notin Ids(PortfolioQueryset(user)) THEN NoChange(HTTP_404_NOT_FOUND, "", {})
    ELSE IF ~InvestmentValid(NewInvestment, data, FALSE)
    THEN NoChange(HTTP_400_BAD_REQUEST, "", {})
    ELSE LET row == [InvestmentValidated(NewInvestment, data) EXCEPT !.portfolio = pk]
             rows == investments \cup {row}
         IN  IF InvestmentWriteOk(rows)
             THEN Result(HTTP_201_CREATED, "", {row.id}, [Cur EXCEPT !.investments = rows])
             ELSE NoChange(HTTP_500_INTERNAL_SERVER_ERROR, "IntegrityError", {})

\* ---------------------------------------------------- TransactionViewSet
\* Request bodies of the transaction endpoints
TransactionBodies ==
    [investment : InvestmentIds, transaction_type : InputTransactionTypes]
        \cup [transaction_type : InputTransactionTypes]

\* TransactionSerializer.is_valid: 'investment' is a PrimaryKeyRelatedField
\* over Investment.objects.all(), 'transaction_type' a ChoiceField
TransactionValid(data, partial) ==
    /\ partial \/ (Has(data, "investment") /\ Has(data, "transaction_type"))
    /\ Has(data, "investment") => data.investment \in Ids(investments)
    /\ Has(data, "transaction_type") => data.transaction_type \in TRANSACTION_TYPE_CHOICES

\* The row a valid body describes, on top of `instance`
TransactionValidated(instance, data) ==
    [instance EXCEPT
        !.investment = IF Has(data, "investment") THEN data.investment ELSE @,
        !.transaction_type =
            IF Has(data, "transaction_type") THEN data.transaction_type ELSE @]

\* A row not yet saved
NewTransaction ==
    [id |-> NextId(Ids(transactions)), investment |-> NoPk, transaction_type |-> ""]

\* GET /api/transactions/
TransactionListResult(cred) ==
    LET user == Authenticate(cred) IN
    IF ~IsAuthenticated(user) THEN NotAuthenticated
    ELSE NoChange(HTTP_200_OK, "", Ids(TransactionQueryset(user)))

\* GET /api/transactions/{pk}/
TransactionRetrieveResult(cred, pk) ==
    LET user == Authenticate(cred) IN
    IF ~IsAuthenticated(user) THEN NotAuthenticated
    ELSE IF pk \notin Ids(TransactionQueryset(user)) THEN NoChange(HTTP_404_NOT_FOUND, "", {})
    ELSE NoChange(HTTP_200_OK, "", {pk})

\* POST /api/transactions/ (ModelViewSet's own perform_create: serializer.save())
TransactionCreateResult(cred, data) ==
    LET user == Authenticate(cred) IN
    IF ~IsAuthenticated(user) THEN NotAuthenticated
    ELSE IF ~TransactionValid(data, FALSE) THEN NoChange(HTTP_400_BAD_REQUEST, "", {})
    ELSE LET row == TransactionValidated(NewTransaction, data)
             rows == transactions \cup {row}
         IN  IF TransactionWriteOk(rows)
             THEN Result(HTTP_201_CREATED, "", {row.id}, [Cur EXCEPT !.transactions = rows])
             ELSE NoChange(HTTP_500_INTERNAL_SERVER_ERROR, "IntegrityError", {})

\* PUT (partial = FALSE) and PATCH (partial = TRUE) /api/transactions/{pk}/
TransactionUpdateResult(cred, pk, data, partial) ==
    LET user == Authenticate(cred) IN
    IF ~IsAuthenticated(user) THEN NotAuthenticated
    ELSE IF pk \notin Ids(TransactionQueryset(user)) THEN NoChange(HTTP_404_NOT_FOUND, "", {})
    ELSE LET rows == Replace(transactions,
                             TransactionValidated(Row(transactions, pk), data))
         IN  IF ~TransactionValid(data, partial)
             THEN NoChange(HTTP_400_BAD_REQUEST, "", {})
             ELSE IF TransactionWriteOk(rows)
             THEN Result(HTTP_200_OK, "", {pk}, [Cur EXCEPT !.transactions = rows])
             ELSE NoChange(HTTP_500_INTERNAL_SERVER_ERROR, "IntegrityError", {})

\* DELETE /api/transactions/{pk}/
TransactionDestroyResult(cred, pk) ==
    LET user == Authenticate(cred) IN
    IF ~IsAuthenticated(user) THEN NotAuthenticated
    ELSE IF pk \notin Ids(TransactionQueryset(user)) THEN NoChange(HTTP_404_NOT_FOUND, "", {})
    ELSE Result(HTTP_204_NO_CONTENT, "", {},
                [Cur EXCEPT !.transactions = {t \in transactions : t.id # pk}])

\* POST /api/investments/{pk}/add_transaction/: validated as it stands, then
\* saved onto the investment of the URL
AddTransactionResult(cred, pk, data) ==
    LET user == Authenticate(cred) IN
    IF ~IsAuthenticated(user) THEN NotAuthenticated
    ELSE IF pk \notin Ids(InvestmentQueryset(user)) THEN NoChange(HTTP_404_NOT_FOUND, "", {})
    ELSE IF ~TransactionValid(data, FALSE) THEN NoChange(HTTP_400_BAD_REQUEST, "", {})
    ELSE LET row == [TransactionValidated(NewTransaction, data) EXCEPT !.investment = pk]
             rows == transactions \cup {row}
         IN  IF TransactionWriteOk(rows)
             THEN Result(HTTP_201_CREATED, "", {row.id}, [Cur EXCEPT !.transactions = rows])
             ELSE NoChange(HTTP_500_INTERNAL_SERVER_ERROR, "IntegrityError", {})

\* ------------------------------------------------------------ auth views
\* An api_logout that answers 200 and deletes no token
ApiLogoutKeepsToken(cred) ==
    IF ~IsAuthenticated(Authenticate(cred)) THEN NotAuthenticated
    ELSE NoChange(HTTP_200_OK, "", {})

\* POST /api/auth/logout/: Token.objects.filter(user=request.user).delete()
ApiLogoutResult(cred) ==
    LET user == Authenticate(cred) IN
    IF ~IsAuthenticated(user) THEN NotAuthenticated
    ELSE Result(HTTP_200_OK, "", {},
                [Cur EXCEPT !.tokens = {t \in tokens : t.user # user}])

\* GET /api/auth/profile/
ApiUserProfileResult(cred) ==
    LET user == Authenticate(cred) IN
    IF ~IsAuthenticated(user) THEN NotAuthenticated
    ELSE NoChange(HTTP_200_OK, "", {user})

\* ------------------------------------------------------------------ login
\* Stored usernames, e-mail addresses and passwords of the login model
AuthUsernames == {"alice", "bob"}
AuthEmails == {"a@x.io", "B@x.io", "bob"}
AuthPassword == "pw1"

\* What a client submits as 'username' and as 'password'; "" also stands
\* for a field the JSON object lacks (data.get returns None, equally falsy)
LoginIdentifiers == {"alice", "ALICE", "bob", "a@x.io", "b@x.io", "carol", ""}
LoginPasswords == {"pw1", "pw2", ""}

\* str.lower on the alphabet above, as __iexact compares
lower(value) ==
    CASE value = "ALICE" -> "alice"
      [] value = "B@x.io" -> "b@x.io"
      [] OTHER -> value

\* field__iexact=value
iexact(field, value) == lower(field) = lower(value)

\* Number of token keys the login model hands out
MaxAuthTokens == 2
AuthCreds == {NoCred} \cup (1..MaxAuthTokens)

\* request.body of POST /api/auth/login/ by what json.loads makes of it: a
\* JSON object with fields, another JSON value (here: an array), text that
\* is no JSON, or bytes that are no UTF-8 text
LoginBodies ==
    {[json |-> "object", username |-> u, password |-> pw] :
        u \in LoginIdentifiers, pw \in LoginPasswords}
    \cup {[json |-> j, username |-> "", password |-> ""] : j \in {"array", "invalid", "undecodable"}}

\* The response of api_login and the stored state it leaves
LoginResult(status, error, user, token, token_created, d) ==
    [status |-> status, error |-> error, user |-> user, token |-> token,
     token_created |-> token_created, db |-> d]

\* An argument of authenticate that the caller left out
None == "<None>"

\* A lookup by username alone
UsernameMatches(username) ==
    {a \in accounts : iexact(a.username, username)}

\* User.objects.get(Q(username__iexact=username) | Q(email__iexact=username))
UsernameOrEmailMatches(username) ==
    {a \in accounts : iexact(a.username, username) \/ iexact(a.email, username)}

\* A check_password that accepts every password
check_password_any(user, password) == TRUE

\* user.check_password(password)
check_password(user, password) == user.password = password

\* An authenticate without the is_active check
authenticate_inactive(username, password) ==
    LET found == UsernameOrEmailMatches(username)
    IN  IF Cardinality(found) # 1 THEN NoUser
        ELSE LET user == CHOOSE a \in found : TRUE
             IN  IF check_password(user, password) THEN user.id ELSE NoUser

\* UsernameOrEmailBackend.authenticate: the user's id, or NoUser for None
\* (DoesNotExist, MultipleObjectsReturned, inactive account, wrong password)
authenticate(username, password) ==
    IF username = None \/ password = None THEN NoUser
    ELSE
    LET found == UsernameOrEmailMatches(username)
    IN  IF Cardinality(found) # 1 THEN NoUser
        ELSE LET user == CHOOSE a \in found : TRUE
             IN  IF ~user.is_active THEN NoUser
                 ELSE IF check_password(user, password) THEN user.id
                 ELSE NoUser

\* backend.authenticate(request, username=..., password=...) called directly:
\* the user it returns, the exception that escapes, and the stored data. An
\* error inside the try block (the database is unreachable, say) ends in the
\* except Exception branch, which logs and returns None.
BackendAuthenticateResult(username, password, error) ==
    [user |-> IF error THEN NoUser ELSE authenticate(username, password),
     exc |-> "", db |-> Cur]

\* POST /api/auth/login/
ApiLoginResult(body) ==
    IF body.json = "invalid"                       \* json.JSONDecodeError
    THEN LoginResult(HTTP_400_BAD_REQUEST, "Invalid JSON format", NoUser, NoCred, FALSE, Cur)
    ELSE IF body.json # "object"    \* UnicodeDecodeError; data.get: AttributeError
    THEN LoginResult(HTTP_500_INTERNAL_SERVER_ERROR, "Authentication error", NoUser,
                     NoCred, FALSE, Cur)
    ELSE IF body.username = "" \/ body.password = ""
    THEN LoginResult(HTTP_400_BAD_REQUEST, "Username and password are required", NoUser,
                     NoCred, FALSE, Cur)
    ELSE LET user == authenticate(body.username, body.password)
         IN  IF user = NoUser
             THEN LoginResult(HTTP_401_UNAUTHORIZED, "Invalid credentials", NoUser,
                              NoCred, FALSE, Cur)
             ELSE IF ~(CHOOSE a \in accounts : a.id = user).is_active
             THEN LoginResult(HTTP_401_UNAUTHORIZED, "Account is inactive", NoUser,
                              NoCred, FALSE, Cur)
             ELSE LET d == TokenGetOrCreateResult(user).db
                      token == CHOOSE t \in d.tokens : t.user = user
                  IN  LoginResult(HTTP_200_OK, "", user, token.key,
                                  d.tokenSeq # tokenSeq,
                                  [d EXCEPT !.sessions = sessions \cup {user}])

\* user.is_active = False; user.save()
UserDeactivateResult(u) ==
    Result(NoStatus, "", {u},
           [Cur EXCEPT !.accounts = {[a EXCEPT !.is_active = (a.id # u) /\ @] :
                                        a \in accounts}])

\* The bounds of the login model
AuthWithinBounds(d) ==
    /\ d.users \subseteq UserIds
    /\ d.tokenSeq <= MaxAuthTokens

AuthUserCreate ==
    \E username \in AuthUsernames, email \in AuthEmails :
        LET res == CreateUserResult(username, email, AuthPassword)
        IN  AuthWithinBounds(res.db) /\ Apply(res)

AuthUserDeactivate ==
    \E u \in users :
        LET res == UserDeactivateResult(u)
        IN  AuthWithinBounds(res.db) /\ Apply(res)

AuthUserDelete ==
    \E u \in users :
        LET res == UserDeleteResult(u)
        IN  AuthWithinBounds(res.db) /\ Apply(res)

AuthApiLogin ==
    \E body \in LoginBodies :
        LET res == ApiLoginResult(body)
        IN  AuthWithinBounds(res.db) /\ Apply(res)

AuthBackendAuthenticate ==
    \E username \in LoginIdentifiers \cup {None},
       password \in LoginPasswords \cup {None}, error \in BOOLEAN :
        LET res == BackendAuthenticateResult(username, password, error)
        IN  AuthWithinBounds(res.db) /\ Apply(res)

AuthApiLogout ==
    \E cred \in AuthCreds :
        LET res == ApiLogoutResult(cred)
        IN  AuthWithinBounds(res.db) /\ Apply(res)

AuthApiUserProfile ==
    \E cred \in AuthCreds :
        LET res == ApiUserProfileResult(cred)
        IN  AuthWithinBounds(res.db) /\ Apply(res)

AuthNext ==
    \/ AuthUserCreate
    \/ AuthUserDeactivate
    \/ AuthUserDelete
    \/ AuthApiLogin
    \/ AuthBackendAuthenticate
    \/ AuthApiLogout
    \/ AuthApiUserProfile

SpecAuth == Init /\ [][AuthNext]_vars

\* ---------------------------------------------------- computed properties
\* Ticks of the clock in one day, and the last tick of the clock
DayTicks == 2
MaxNow == 11

\* Portfolio.age_days: (timezone.now() - self.created_at).days; timedelta.days
\* is the floor of the difference in days
age_days(portfolio) == (now - portfolio.created_at) \div DayTicks

\* A total_value that adds where the property multiplies
total_value_added(investment) == investment.quantity + investment.purchase_price

\* Investment.total_value: self.quantity * self.purchase_price (Decimal
\* arithmetic, exact for the digits the two fields can hold)
total_value(investment) == investment.quantity * investment.purchase_price

\* Sum(F('quantity') * F('purchase_price')) over the rows `rows`
RECURSIVE SumQuantityTimesPrice(_)
SumQuantityTimesPrice(rows) ==
    IF rows = {} THEN 0
    ELSE LET row == CHOOSE r \in rows : TRUE
         IN  row.quantity * row.purchase_price + SumQuantityTimesPrice(rows \ {row})

\* A total_invested that multiplies the two column sums
RECURSIVE SumColumn(_, _)
SumColumn(rows, f) ==
    IF rows = {} THEN 0
    ELSE LET row == CHOOSE r \in rows : TRUE
         IN  row[f] + SumColumn(rows \ {row}, f)

total_invested_of_sums ==
    SumColumn(investments, "quantity") * SumColumn(investments, "purchase_price")

\* Investment.objects.total_invested(): the aggregate over all rows, which is
\* None when there is no row, or Decimal('0.00')
total_invested ==
    IF investments = {} THEN 0 ELSE SumQuantityTimesPrice(investments)

\* portfolio.created_at = ...; portfolio.save()
OrmPortfolioBackdateResult(id, created_at) ==
    Result(NoStatus, "", {id},
           [Cur EXCEPT !.portfolios =
                Replace(portfolios, [Row(portfolios, id) EXCEPT !.created_at = created_at])])

\* The bounds of the model of the computed properties
CalcWithinBounds(d) ==
    /\ Cardinality(d.users) <= 1
    /\ Cardinality(d.portfolios) <= 1
    /\ Ids(d.investments) \subseteq InvestmentIds

\* timezone.now() advances
CalcTick ==
    /\ now < MaxNow
    /\ now' = now + 1
    /\ UNCHANGED <<users, accounts, sessions, tokens, tokenSeq, portfolios, investments,
                   transactions, consumers, cache, request, logs>>

CalcUserCreate ==
    LET res == UserCreateResult
    IN  CalcWithinBounds(res.db) /\ Apply(res)

CalcPortfolioCreate ==
    \E u \in users :
        LET res == OrmPortfolioCreateResult(u, "Growth", TRUE)
        IN  CalcWithinBounds(res.db) /\ Apply(res)

CalcPortfolioBackdate ==
    \E p \in portfolios, created_at \in 0..MaxNow :
        LET res == OrmPortfolioBackdateResult(p.id, created_at)
        IN  CalcWithinBounds(res.db) /\ Apply(res)

CalcInvestmentCreate ==
    \E p \in portfolios, s \in InputSymbols, q \in {0, 1, 2}, pr \in {1, 3} :
        LET res == OrmInvestmentCreateResult(p.id, s, q, pr)
        IN  CalcWithinBounds(res.db) /\ Apply(res)

CalcInvestmentDelete ==
    \E i \in investments :
        LET res == OrmInvestmentDeleteResult(i.id)
        IN  CalcWithinBounds(res.db) /\ Apply(res)

\* portfolio.age_days, investment.total_value and
\* Investment.objects.total_invested() are read: nothing is assigned or saved
CalcRead ==
    /\ \A p \in portfolios : age_days(p) \in Int
    /\ \A i \in investments : total_value(i) \in Int
    /\ total_invested \in Int
    /\ UNCHANGED vars

CalcNext ==
    \/ CalcTick
    \/ CalcUserCreate
    \/ CalcPortfolioCreate
    \/ CalcPortfolioBackdate
    \/ CalcInvestmentCreate
    \/ CalcInvestmentDelete
    \/ CalcRead

SpecCalc == Init /\ [][CalcNext]_vars

\* ------------------------------------------------------ PortfolioConsumer
\* The text frames a client sends: the three message types receive knows, a
\* JSON object of another type, a JSON text that is no object, and a text that
\* is no JSON
ClientTexts ==
    {"get_portfolio_data", "start_updates", "stop_updates", "ping", "[]", "{"}

\* Every message alike, with the keys type, data and timestamp
MessageUniform(type) ==
    [type |-> type, keys |-> {"type", "data", "timestamp"}]

\* json.dumps of the dict a handler passes to self.send: its type and its keys
Message(type) ==
    CASE type = "connection_established" ->
            [type |-> type, keys |-> {"type", "message", "timestamp", "user"}]
      [] type \in {"portfolio_data", "price_update"} ->
            [type |-> type, keys |-> {"type", "data", "timestamp"}]
      [] type = "error" ->
            [type |-> type, keys |-> {"type", "message"}]

\* self.send on an open connection
send(k, message) == [k EXCEPT !.sent = Append(@, message)]

\* self.update_task: the task created last, "none" while the attribute is unset
update_task(k) == IF k.tasks = <<>> THEN "none" ELSE k.tasks[Len(k.tasks)]

\* The loop tasks of a consumer that are not done
LiveTasks(k) == {t \in 1..Len(k.tasks) : k.tasks[t] \in {"ready", "sleeping"}}

\* self.update_task = asyncio.create_task(self.price_update_loop()): a new
\* task, ready to run; a task the attribute referred to before runs on
create_task(k) == [k EXCEPT !.tasks = Append(@, "ready")]

\* start_price_updates without its check for a running task
start_price_updates_unguarded(k) == create_task(k)

\* start_price_updates: a task that is not done keeps running, otherwise a new
\* one is created
start_price_updates(k) ==
    IF update_task(k) \in {"ready", "sleeping"}
    THEN k
    ELSE create_task(k)

\* stop_price_updates that leaves the task running
stop_price_updates_uncancelled(k) == k

\* stop_price_updates: cancel the task and await it; the loop leaves through its
\* except asyncio.CancelledError, and awaiting a task that is done returns (or
\* raises the CancelledError that the except branch swallows)
stop_price_updates(k) ==
    IF k.tasks = <<>>
    THEN k
    ELSE [k EXCEPT !.tasks[Len(k.tasks)] = "done"]

\* connect with the loop started before the confirmation is sent
ConnectStepsLoopFirst ==
    <<"group_add", "accept", "start_price_updates", "send">>

\* The statements of connect, in program order; it yields at each of them
ConnectSteps ==
    <<"group_add", "accept", "send", "start_price_updates">>

\* connect, one statement further
connect(k) ==
    LET statement == ConnectSteps[k.step + 1]
        n == [k EXCEPT !.step = @ + 1]
    IN  CASE statement = "group_add" -> [n EXCEPT !.in_group = TRUE]
          [] statement = "accept" -> [n EXCEPT !.accepted = TRUE]
          [] statement = "send" -> send(n, Message("connection_established"))
          [] statement = "start_price_updates" -> start_price_updates(n)

\* receive: json.loads fails on a text that is no JSON, .get fails on a JSON
\* text that is no object, and both answer with an error message; an object of
\* an unknown type is ignored
receive(k, text_data) ==
    LET n == [k EXCEPT !.received = @ + 1]
    IN  CASE text_data = "{" -> send(n, Message("error"))
          [] text_data = "[]" -> send(n, Message("error"))
          [] text_data = "get_portfolio_data" -> send(n, Message("portfolio_data"))
          [] text_data = "start_updates" -> start_price_updates(n)
          [] text_data = "stop_updates" -> stop_price_updates(n)
          [] OTHER -> n

\* One round of price_update_loop in task t: send the mock prices, then sleep.
\* On a connection that is not accepted the send raises, the send of the error
\* message in the except branch raises too, and the task ends. On a closed
\* connection the server either raises in the same way or drops the frame, and
\* then the loop goes on to sleep.
price_update_loop(k, t) ==
    CASE k.accepted /\ ~k.closed ->
            {[send(k, Message("price_update")) EXCEPT !.tasks[t] = "sleeping"]}
      [] ~k.accepted ->
            {[k EXCEPT !.tasks[t] = "done"]}
      [] OTHER ->
            {[k EXCEPT !.tasks[t] = "done"], [k EXCEPT !.tasks[t] = "sleeping"]}

\* disconnect leaves the group; it does not cancel update_task
disconnect(k) == [k EXCEPT !.in_group = FALSE, !.closed = TRUE]

\* The price_update messages a consumer has sent
PriceUpdates(k) == {i \in 1..Len(k.sent) : k.sent[i].type = "price_update"}

\* The database, the cache, the task queue and the files, which the consumer
\* never touches
database == <<users, accounts, sessions, now, tokens, tokenSeq, portfolios,
              investments, transactions, cache, request, logs>>

\* The handlers of one consumer run one after another: a frame or a close is
\* dispatched once connect has returned
Dispatching(c) ==
    /\ consumers[c].step = Len(ConnectSteps)
    /\ ~consumers[c].closed

WsConnect(c) ==
    /\ consumers[c].step < Len(ConnectSteps)
    /\ consumers' = [consumers EXCEPT ![c] = connect(@)]
    /\ UNCHANGED database

WsReceive(c) ==
    /\ Dispatching(c)
    /\ consumers[c].received < MaxReceived
    /\ \E text_data \in ClientTexts :
           consumers' = [consumers EXCEPT ![c] = receive(@, text_data)]
    /\ UNCHANGED database

WsPriceUpdateLoop(c) ==
    /\ Cardinality(PriceUpdates(consumers[c])) < MaxUpdates
    /\ \E t \in 1..Len(consumers[c].tasks) :
           /\ consumers[c].tasks[t] = "ready"
           /\ \E k \in price_update_loop(consumers[c], t) :
                  consumers' = [consumers EXCEPT ![c] = k]
    /\ UNCHANGED database

\* asyncio.sleep(5) returns
WsSleepOver(c) ==
    /\ \E t \in 1..Len(consumers[c].tasks) :
           /\ consumers[c].tasks[t] = "sleeping"
           /\ consumers' = [consumers EXCEPT ![c].tasks[t] = "ready"]
    /\ UNCHANGED database

WsDisconnect(c) ==
    /\ Dispatching(c)
    /\ consumers' = [consumers EXCEPT ![c] = disconnect(@)]
    /\ UNCHANGED database

WsNext ==
    \E c \in Connections :
        \/ WsConnect(c)
        \/ WsReceive(c)
        \/ WsPriceUpdateLoop(c)
        \/ WsSleepOver(c)
        \/ WsDisconnect(c)

\* The event loop runs every handler and every task that is ready to run
WsFairness ==
    \A c \in Connections :
        WF_vars(WsConnect(c)) /\ WF_vars(WsPriceUpdateLoop(c))

SpecWs == Init /\ [][WsNext]_vars /\ WsFairness

\* ------------------------------------------------------------ Celery tasks
\* The most runs of one task request the model follows
MaxRuns == 5

TaskNames ==
    {"refresh_portfolio_analytics", "cleanup_old_logs", "health_check",
     "generate_portfolio_report", "send_portfolio_notifications"}

\* A retry policy that never gives up: max_retries=None
RetryPolicyForever(task) ==
    [retries |-> TRUE, unlimited |-> TRUE, max_retries |-> 0, countdown |-> 300]

\* The arguments of self.retry in a task's except Exception branch;
\* health_check has no such call, it returns an error dict instead
RetryPolicy(task) ==
    CASE task = "refresh_portfolio_analytics" ->
            [retries |-> TRUE, unlimited |-> FALSE, max_retries |-> 3, countdown |-> 300]
      [] task = "cleanup_old_logs" ->
            [retries |-> TRUE, unlimited |-> FALSE, max_retries |-> 2, countdown |-> 600]
      [] task \in {"generate_portfolio_report", "send_portfolio_notifications"} ->
            [retries |-> TRUE, unlimited |-> FALSE, max_retries |-> 2, countdown |-> 300]
      [] OTHER ->
            [retries |-> FALSE, unlimited |-> FALSE, max_retries |-> 0, countdown |-> 0]

\* celery Task.retry(exc=e, countdown=..., max_retries=...): the request is
\* sent again with retries + 1 unless that exceeds max_retries, and then the
\* exception is raised for good
retry(req, policy) ==
    IF ~policy.unlimited /\ req.retries + 1 > policy.max_retries
    THEN [req EXCEPT !.state = "FAILURE"]
    ELSE [req EXCEPT !.state = "RETRY", !.retries = @ + 1,
                     !.countdown = policy.countdown]

\* A cache key without a date in it
NoDay == -1

\* f'{prefix}{id}' and f'{prefix}{id}_{day}': the key as its parts
CacheKey(prefix, id, day) == [prefix |-> prefix, id |-> id, day |-> day]

\* The key under which PortfolioAnalyticsView looks its analytics up
view_cache_key(user_id) == CacheKey("portfolio_analytics_", user_id, NoDay)

\* The key under which refresh_portfolio_analytics stores a user's analytics
user_cache_key(user_id) == CacheKey("portfolio_analytics_user_", user_id, NoDay)

\* timezone.now().strftime("%Y%m%d")
Today == now \div DayTicks

\* cache.get(key): the value, or None
cache_get(c, key) ==
    IF \E e \in c : e.key = key
    THEN (CHOOSE e \in c : e.key = key).value
    ELSE None

\* cache.set(key, value, timeout)
cache_set(c, key, value) ==
    {e \in c : e.key # key} \cup {[key |-> key, value |-> value]}

\* _generate_user_analytics(user, portfolios): portfolios.count() is the
\* QuerySet's count; on a list it is list.count without its argument, a
\* TypeError
generate_user_analytics(user_id, ps, kind) ==
    [raised |-> kind = "list",
     value |-> [generated_by |-> "_generate_user_analytics", user_id |-> user_id,
                count |-> Cardinality(ps)]]

\* What running a task body comes to: whether an exception reached the
\* except Exception branch, the returned status and count, the cache and
\* the logs directory afterwards
Outcome(raised, status, count, c, l) ==
    [raised |-> raised, status |-> status, count |-> count, cache |-> c, logs |-> l]

refresh_portfolio_analytics(c, l) ==
    LET active == {p \in portfolios : p.is_active}
        global == cache_set(c, CacheKey("portfolio_analytics_global", NoPk, NoDay),
                            [generated_by |-> "refresh_portfolio_analytics",
                             user_id |-> NoUser, count |-> Cardinality(active)])
        served == {a.id : a \in {b \in accounts :
                        b.is_active /\ \E p \in active : p.user = b.id}}
        written == {[key |-> user_cache_key(u),
                     value |-> generate_user_analytics(
                                   u, {p \in active : p.user = u}, "queryset").value] :
                    u \in served}
    IN  Outcome(FALSE, "success", Cardinality(active),
                {e \in global : e.key \notin {w.key : w \in written}} \cup written, l)

\* cleaned_files is bound only inside `if os.path.exists(log_dir)`: without
\* the directory the cache keys are deleted and then the log line raises
\* UnboundLocalError
cleanup_old_logs(c, l) ==
    LET removed == {f \in l.files : f.ext = ".log" /\ f.kind = "file" /\ f.old}
        swept == {e \in c : e.key # CacheKey("portfolio_analytics_global", NoPk, NoDay)}
    IN  IF l.exists
        THEN Outcome(FALSE, "success", Cardinality(removed), swept,
                     [l EXCEPT !.files = @ \ removed])
        ELSE Outcome(TRUE, "", 0, swept, l)

\* health_check sets and reads back a key that lives for 10 seconds
health_check(c, l) == Outcome(FALSE, "healthy", 0, c, l)

generate_portfolio_report(c, l, user_id, portfolio_id) ==
    LET matching == {p \in portfolios :
                        /\ p.user = user_id /\ p.is_active
                        /\ portfolio_id = NoPk \/ p.id = portfolio_id}
        report_data == {generate_user_analytics(user_id, {p}, "list") : p \in matching}
    IN  IF user_id \notin users                              \* User.DoesNotExist
        THEN Outcome(FALSE, "error", 0, c, l)
        ELSE IF matching = {}
        THEN Outcome(FALSE, "error", 0, c, l)
        ELSE IF \E d \in report_data : d.raised
        THEN Outcome(TRUE, "", 0, c, l)
        ELSE Outcome(FALSE, "success", Cardinality(matching),
                     cache_set(c, CacheKey("portfolio_report_user_", user_id, Today),
                               [generated_by |-> "generate_portfolio_report",
                                user_id |-> user_id, count |-> Cardinality(matching)]),
                     l)

send_portfolio_notifications(c, l) == Outcome(FALSE, "success", 0, c, l)

\* The body of the task of request req; `error` is an exception from outside
\* (the database or the cache is unreachable) raised inside the try block
TaskBody(req, error, c, l) ==
    CASE req.task = "health_check" ->
            IF error THEN Outcome(FALSE, "error", 0, c, l) ELSE health_check(c, l)
      [] req.task # "health_check" /\ error -> Outcome(TRUE, "", 0, c, l)
      [] req.task = "refresh_portfolio_analytics" /\ ~error ->
            refresh_portfolio_analytics(c, l)
      [] req.task = "cleanup_old_logs" /\ ~error -> cleanup_old_logs(c, l)
      [] req.task = "generate_portfolio_report" /\ ~error ->
            generate_portfolio_report(c, l, req.user_id, req.portfolio_id)
      [] req.task = "send_portfolio_notifications" /\ ~error ->
            send_portfolio_notifications(c, l)

\* One run of the request by the worker
RunTask(req, error, c, l) ==
    LET ran == [req EXCEPT !.runs = @ + 1]
        out == TaskBody(req, error, c, l)
    IN  [request |-> IF out.raised
                     THEN retry(ran, RetryPolicy(req.task))
                     ELSE [ran EXCEPT !.state = "SUCCESS", !.status = out.status,
                                      !.count = out.count],
         cache |-> out.cache, logs |-> out.logs]

\* PortfolioAnalyticsView.get_context_data for a logged-in user: the cached
\* analytics, or new ones that are then cached
get_context_data(c, user_id) ==
    LET cached == cache_get(c, view_cache_key(user_id))
        analytics == [generated_by |-> "_generate_analytics", user_id |-> user_id,
                      count |-> Cardinality({p \in portfolios : p.user = user_id})]
    IN  IF \E e \in c : e.key = view_cache_key(user_id)     \* analytics is not None
        THEN [analytics |-> cached, cache |-> c]
        ELSE [analytics |-> analytics,
              cache |-> cache_set(c, view_cache_key(user_id), analytics)]

\* The files that may lie in the logs directory
LogFiles ==
    {[stem |-> "app", ext |-> ".log", kind |-> "file", old |-> TRUE],
     [stem |-> "debug", ext |-> ".log", kind |-> "file", old |-> FALSE],
     [stem |-> "notes", ext |-> ".txt", kind |-> "file", old |-> TRUE],
     [stem |-> "archive", ext |-> ".log", kind |-> "dir", old |-> TRUE]}

\* The sizes the model of the tasks explores
TaskWithinBounds(d) ==
    /\ Cardinality(d.users) <= 1
    /\ Ids(d.portfolios) \subseteq PortfolioIds

TaskUserCreate ==
    LET res == UserCreateResult
    IN  TaskWithinBounds(res.db) /\ Apply(res)

TaskUserDeactivate ==
    \E u \in users :
        LET res == UserDeactivateResult(u)
        IN  TaskWithinBounds(res.db) /\ Apply(res)

TaskPortfolioCreate ==
    \E u \in users, n \in Names, a \in BOOLEAN :
        LET res == OrmPortfolioCreateResult(u, n, a)
        IN  TaskWithinBounds(res.db) /\ Apply(res)

\* The files of the logs directory change; the directory appears or goes
TaskLogsChange ==
    /\ \E exists \in BOOLEAN, files \in {{}, LogFiles} :
           /\ ~exists => files = {}
           /\ logs' = [exists |-> exists, files |-> files]
    /\ UNCHANGED <<users, accounts, sessions, now, tokens, tokenSeq, portfolios,
                   investments, transactions, consumers, cache, request>>

\* task.delay(...), or celery beat sending a periodic task
TaskDelay ==
    /\ request.state \in {"NONE", "SUCCESS", "FAILURE"}
    /\ \E task \in TaskNames, user_id \in UserIds, portfolio_id \in {NoPk} \cup PortfolioIds :
           /\ task # "generate_portfolio_report" => user_id = 1 /\ portfolio_id = NoPk
           /\ request' = [NoRequest EXCEPT
                             !.task = task, !.state = "PENDING",
                             !.user_id = IF task = "generate_portfolio_report"
                                         THEN user_id ELSE NoPk,
                             !.portfolio_id = portfolio_id]
    /\ UNCHANGED <<users, accounts, sessions, now, tokens, tokenSeq, portfolios,
                   investments, transactions, consumers, cache, logs>>

\* The worker runs the request: for the first time, or again after a retry's
\* countdown
TaskRun ==
    /\ request.state \in {"PENDING", "RETRY"}
    /\ request.runs < MaxRuns
    /\ \E error \in BOOLEAN :
           LET after == RunTask(request, error, cache, logs)
           IN  /\ request' = after.request
               /\ cache' = after.cache
               /\ logs' = after.logs
    /\ UNCHANGED <<users, accounts, sessions, now, tokens, tokenSeq, portfolios,
                   investments, transactions, consumers>>

\* GET of the analytics page by a logged-in user
TaskView ==
    /\ \E u \in users : cache' = get_context_data(cache, u).cache
    /\ UNCHANGED <<users, accounts, sessions, now, tokens, tokenSeq, portfolios,
                   investments, transactions, consumers, request, logs>>

\* An entry's timeout passes
TaskCacheExpire ==
    /\ \E e \in cache : cache' = cache \ {e}
    /\ UNCHANGED <<users, accounts, sessions, now, tokens, tokenSeq, portfolios,
                   investments, transactions, consumers, request, logs>>

TasksNext ==
    \/ TaskUserCreate
    \/ TaskUserDeactivate
    \/ TaskPortfolioCreate
    \/ TaskLogsChange
    \/ TaskDelay
    \/ TaskRun
    \/ TaskView
    \/ TaskCacheExpire

SpecTasks == Init /\ [][TasksNext]_vars

\* ------------------------------------------------------------ API steps
PortfolioList ==
    \E cred \in Creds :
        LET res == PortfolioListResult(cred)
        IN  WithinBounds(res.db) /\ Apply(res)

PortfolioRetrieve ==
    \E cred \in Creds, pk \in PortfolioIds :
        LET res == PortfolioRetrieveResult(cred, pk)
        IN  WithinBounds(res.db) /\ Apply(res)

PortfolioCreate ==
    \E cred \in Creds, data \in PortfolioBodies :
        LET res == PortfolioCreateResult(cred, data)
        IN  WithinBounds(res.db) /\ Apply(res)

PortfolioUpdate ==
    \E cred \in Creds, pk \in PortfolioIds, data \in PortfolioBodies :
        LET res == PortfolioUpdateResult(cred, pk, data, FALSE)
        IN  WithinBounds(res.db) /\ Apply(res)

PortfolioPartialUpdate ==
    \E cred \in Creds, pk \in PortfolioIds, data \in PortfolioBodies :
        LET res == PortfolioUpdateResult(cred, pk, data, TRUE)
        IN  WithinBounds(res.db) /\ Apply(res)

PortfolioDestroy ==
    \E cred \in Creds, pk \in PortfolioIds :
        LET res == PortfolioDestroyResult(cred, pk)
        IN  WithinBounds(res.db) /\ Apply(res)

ApiLogout ==
    \E cred \in Creds :
        LET res == ApiLogoutResult(cred)
        IN  WithinBounds(res.db) /\ Apply(res)

ApiUserProfile ==
    \E cred \in Creds :
        LET res == ApiUserProfileResult(cred)
        IN  WithinBounds(res.db) /\ Apply(res)

InvestmentList ==
    \E cred \in Creds :
        LET res == InvestmentListResult(cred)
        IN  WithinBounds(res.db) /\ Apply(res)

InvestmentRetrieve ==
    \E cred \in Creds, pk \in InvestmentIds :
        LET res == InvestmentRetrieveResult(cred, pk)
        IN  WithinBounds(res.db) /\ Apply(res)

InvestmentCreate ==
    \E cred \in Creds, data \in InvestmentBodies :
        LET res == InvestmentCreateResult(cred, data)
        IN  WithinBounds(res.db) /\ Apply(res)

InvestmentUpdate ==
    \E cred \in Creds, pk \in InvestmentIds, data \in InvestmentBodies :
        LET res == InvestmentUpdateResult(cred, pk, data, FALSE)
        IN  WithinBounds(res.db) /\ Apply(res)

InvestmentPartialUpdate ==
    \E cred \in Creds, pk \in InvestmentIds, data \in InvestmentBodies :
        LET res == InvestmentUpdateResult(cred, pk, data, TRUE)
        IN  WithinBounds(res.db) /\ Apply(res)

InvestmentDestroy ==
    \E cred \in Creds, pk \in InvestmentIds :
        LET res == InvestmentDestroyResult(cred, pk)
        IN  WithinBounds(res.db) /\ Apply(res)

AddInvestment ==
    \E cred \in Creds, pk \in PortfolioIds, data \in InvestmentBodies :
        LET res == AddInvestmentResult(cred, pk, data)
        IN  WithinBounds(res.db) /\ Apply(res)

TransactionList ==
    \E cred \in Creds :
        LET res == TransactionListResult(cred)
        IN  WithinBounds(res.db) /\ Apply(res)

TransactionRetrieve ==
    \E cred \in Creds, pk \in TransactionIds :
        LET res == TransactionRetrieveResult(cred, pk)
        IN  WithinBounds(res.db) /\ Apply(res)

TransactionCreate ==
    \E cred \in Creds, data \in TransactionBodies :
        LET res == TransactionCreateResult(cred, data)
        IN  WithinBounds(res.db) /\ Apply(res)

TransactionUpdate ==
    \E cred \in Creds, pk \in TransactionIds, data \in TransactionBodies :
        LET res == TransactionUpdateResult(cred, pk, data, FALSE)
        IN  WithinBounds(res.db) /\ Apply(res)

TransactionPartialUpdate ==
    \E cred \in Creds, pk \in TransactionIds, data \in TransactionBodies :
        LET res == TransactionUpdateResult(cred, pk, data, TRUE)
        IN  WithinBounds(res.db) /\ Apply(res)

TransactionDestroy ==
    \E cred \in Creds, pk \in TransactionIds :
        LET res == TransactionDestroyResult(cred, pk)
        IN  WithinBounds(res.db) /\ Apply(res)

AddTransaction ==
    \E cred \in Creds, pk \in InvestmentIds, data \in TransactionBodies :
        LET res == AddTransactionResult(cred, pk, data)
        IN  WithinBounds(res.db) /\ Apply(res)

\* ------------------------------------------------------------ endpoints
\* Every answer the API can give to a request with credentials `cred` in
\* the current state: the routes of urls.py over all ids and bodies
ApiResults(cred) ==
    {PortfolioListResult(cred), InvestmentListResult(cred), TransactionListResult(cred),
     ApiLogoutResult(cred), ApiUserProfileResult(cred)}
    \cup {PortfolioRetrieveResult(cred, pk) : pk \in PortfolioIds}
    \cup {PortfolioCreateResult(cred, data) : data \in PortfolioBodies}
    \cup {PortfolioUpdateResult(cred, pk, data, partial) :
            pk \in PortfolioIds, data \in PortfolioBodies, partial \in BOOLEAN}
    \cup {PortfolioDestroyResult(cred, pk) : pk \in PortfolioIds}
    \cup {AddInvestmentResult(cred, pk, data) : pk \in PortfolioIds, data \in InvestmentBodies}
    \cup {InvestmentRetrieveResult(cred, pk) : pk \in InvestmentIds}
    \cup {InvestmentCreateResult(cred, data) : data \in InvestmentBodies}
    \cup {InvestmentUpdateResult(cred, pk, data, partial) :
            pk \in InvestmentIds, data \in InvestmentBodies, partial \in BOOLEAN}
    \cup {InvestmentDestroyResult(cred, pk) : pk \in InvestmentIds}
    \cup {AddTransactionResult(cred, pk, data) : pk \in InvestmentIds, data \in TransactionBodies}
    \cup {TransactionRetrieveResult(cred, pk) : pk \in TransactionIds}
    \cup {TransactionCreateResult(cred, data) : data \in TransactionBodies}
    \cup {TransactionUpdateResult(cred, pk, data, partial) :
            pk \in TransactionIds, data \in TransactionBodies, partial \in BOOLEAN}
    \cup {TransactionDestroyResult(cred, pk) : pk \in TransactionIds}

Next ==
    \/ UserCreate
    \/ UserDelete
    \/ TokenGetOrCreate
    \/ OrmPortfolioCreate
    \/ OrmPortfolioSave
    \/ OrmPortfolioDelete
    \/ OrmInvestmentCreate
    \/ OrmInvestmentSave
    \/ OrmInvestmentDelete
    \/ OrmTransactionCreate
    \/ PortfolioList
    \/ PortfolioRetrieve
    \/ PortfolioCreate
    \/ PortfolioUpdate
    \/ PortfolioPartialUpdate
    \/ PortfolioDestroy
    \/ InvestmentList
    \/ InvestmentRetrieve
    \/ InvestmentCreate
    \/ InvestmentUpdate
    \/ InvestmentPartialUpdate
    \/ InvestmentDestroy
    \/ AddInvestment
    \/ TransactionList
    \/ TransactionRetrieve
    \/ TransactionCreate
    \/ TransactionUpdate
    \/ TransactionPartialUpdate
    \/ TransactionDestroy
    \/ AddTransaction
    \/ ApiLogout
    \/ ApiUserProfile

Spec == Init /\ [][Next]_vars

\* ================================================================ claims
\* An operation failed: an exception escaped, or the status is an error status
Failed(res) == res.exc # "" \/ res.status >= HTTP_400_BAD_REQUEST

\* The credentials that authenticate somebody in the current state
ValidCreds == {cred \in Creds : Authenticate(cred) # NoUser}

\* The owner of portfolio `pid`, read off the stored rows
OwnerOfPortfolio(pid) == (CHOOSE p \in portfolios : p.id = pid).user

\* The owner of investment `iid`: the owner of its portfolio
OwnerOfInvestment(iid) ==
    OwnerOfPortfolio((CHOOSE i \in investments : i.id = iid).portfolio)

\* C1: in every reachable state no user owns two portfolios with the same
\* name, and every attempt (ORM create, ORM save, POST, PUT, PATCH) to store
\* a portfolio under a (user, name) pair that another stored portfolio
\* already has fails and leaves the stored state unchanged.
C1_UniquePortfolioName ==
    /\ \A p, q \in portfolios : p.id # q.id => ~(p.user = q.user /\ p.name = q.name)
    /\ \A q \in portfolios, a \in BOOLEAN :
        LET res == OrmPortfolioCreateResult(q.user, q.name, a)
        IN  Failed(res) /\ res.db = Cur
    /\ \A p, q \in portfolios, a \in BOOLEAN :
        (p.id # q.id /\ p.user = q.user) =>
            LET res == OrmPortfolioSaveResult(p.id, q.name, a)
            IN  Failed(res) /\ res.db = Cur
    /\ \A cred \in ValidCreds, q \in portfolios, data \in PortfolioBodies :
        (q.user = Authenticate(cred) /\ Has(data, "name") /\ data.name = q.name) =>
            /\ LET res == PortfolioCreateResult(cred, data)
               IN  Failed(res) /\ res.db = Cur
            /\ \A p \in portfolios, partial \in BOOLEAN :
                (p.id # q.id /\ p.user = q.user) =>
                    LET res == PortfolioUpdateResult(cred, p.id, data, partial)
                    IN  Failed(res) /\ res.db = Cur

\* C1 witness: a user with a token owns two portfolios, and renaming one to
\* the name of the other is refused by the ORM and by PATCH
C1_Witness ==
    \E cred \in ValidCreds, p, q \in portfolios :
        /\ p.id # q.id /\ p.user = q.user /\ p.user = Authenticate(cred)
        /\ OrmPortfolioSaveResult(p.id, q.name, TRUE).exc = "IntegrityError"
        /\ PortfolioUpdateResult(cred, p.id, [name |-> q.name], TRUE).status
              = HTTP_400_BAD_REQUEST

\* C2: in every reachable state no portfolio holds two investments with the
\* same symbol, and every attempt (ORM create, ORM save, POST, add_investment,
\* PUT, PATCH) to store an investment under a (portfolio, symbol) pair that
\* another stored investment already has fails and leaves the stored state
\* unchanged.
C2_UniquePortfolioSymbol ==
    /\ \A i, j \in investments :
        i.id # j.id => ~(i.portfolio = j.portfolio /\ i.symbol = j.symbol)
    /\ \A j \in investments :
        LET res == OrmInvestmentCreateResult(j.portfolio, j.symbol, 1, 1)
        IN  Failed(res) /\ res.db = Cur
    /\ \A i, j \in investments :
        (i.id # j.id /\ i.portfolio = j.portfolio) =>
            LET res == OrmInvestmentSaveResult(i.id, j.symbol)
            IN  Failed(res) /\ res.db = Cur
    /\ \A cred \in ValidCreds, j \in investments, data \in InvestmentBodies :
        (Has(data, "symbol") /\ validate_symbol(data.symbol) = j.symbol) =>
            /\ (Has(data, "portfolio") /\ data.portfolio = j.portfolio) =>
                LET res == InvestmentCreateResult(cred, data)
                IN  Failed(res) /\ res.db = Cur
            /\ OwnerOfInvestment(j.id) = Authenticate(cred) =>
                LET res == AddInvestmentResult(cred, j.portfolio, data)
                IN  Failed(res) /\ res.db = Cur
            /\ \A i \in investments, partial \in BOOLEAN :
                (/\ i.id # j.id
                 /\ OwnerOfInvestment(i.id) = Authenticate(cred)
                 /\ j.portfolio = (IF Has(data, "portfolio") THEN data.portfolio
                                   ELSE i.portfolio)) =>
                    LET res == InvestmentUpdateResult(cred, i.id, data, partial)
                    IN  Failed(res) /\ res.db = Cur

\* C2 witness: a portfolio of a user with a token holds two investments, and
\* giving one the (normalised) symbol of the other is refused with 400
C2_Witness ==
    \E cred \in ValidCreds, i, j \in investments :
        /\ i.id # j.id /\ i.portfolio = j.portfolio
        /\ OwnerOfInvestment(i.id) = Authenticate(cred)
        /\ i.symbol = " aapl" /\ j.symbol = "AAPL"
        /\ InvestmentUpdateResult(cred, i.id, [symbol |-> " aapl"], TRUE).status
              = HTTP_400_BAD_REQUEST
        /\ OrmInvestmentSaveResult(i.id, j.symbol).exc = "IntegrityError"

\* C3: a retrieve, PUT, PATCH or DELETE by an authenticated user A addressed
\* to a portfolio or an investment that another user owns is answered 404
\* and leaves the stored state (so that object and its fields) unchanged.
C3_CrossUserNotFound ==
    \A cred \in ValidCreds :
        /\ \A p \in portfolios :
            p.user # Authenticate(cred) =>
                \A res \in {PortfolioRetrieveResult(cred, p.id),
                            PortfolioDestroyResult(cred, p.id)}
                           \cup {PortfolioUpdateResult(cred, p.id, data, partial) :
                                    data \in PortfolioBodies, partial \in BOOLEAN} :
                    /\ res.status = HTTP_404_NOT_FOUND
                    /\ p \in res.db.portfolios
                    /\ res.db = Cur
        /\ \A i \in investments :
            OwnerOfInvestment(i.id) # Authenticate(cred) =>
                \A res \in {InvestmentRetrieveResult(cred, i.id),
                            InvestmentDestroyResult(cred, i.id)}
                           \cup {InvestmentUpdateResult(cred, i.id, data, partial) :
                                    data \in InvestmentBodies, partial \in BOOLEAN} :
                    /\ res.status = HTTP_404_NOT_FOUND
                    /\ i \in res.db.investments
                    /\ res.db = Cur

\* C3 witness: A has a token and B owns a portfolio holding an investment;
\* A's DELETE of the portfolio and PUT on the investment are answered 404
C3_Witness ==
    \E cred \in ValidCreds, p \in portfolios, i \in investments :
        /\ p.user # Authenticate(cred) /\ i.portfolio = p.id
        /\ PortfolioDestroyResult(cred, p.id).status = HTTP_404_NOT_FOUND
        /\ InvestmentUpdateResult(cred, i.id,
                [portfolio |-> p.id, symbol |-> "AAPL", quantity |-> 1, purchase_price |-> 1],
                FALSE).status = HTTP_404_NOT_FOUND

\* C4: the list endpoints answer an authenticated user A with exactly A's
\* objects: the portfolios whose user is A, the investments whose portfolio's
\* user is A, the transactions whose investment's portfolio's user is A.
C4_ListsExactlyOwn ==
    \A cred \in ValidCreds :
        LET A == Authenticate(cred) IN
        /\ PortfolioListResult(cred).status = HTTP_200_OK
        /\ PortfolioListResult(cred).ids = {p.id : p \in {q \in portfolios : q.user = A}}
        /\ InvestmentListResult(cred).status = HTTP_200_OK
        /\ InvestmentListResult(cred).ids =
                {i.id : i \in {j \in investments :
                                  \E p \in portfolios : p.id = j.portfolio /\ p.user = A}}
        /\ TransactionListResult(cred).status = HTTP_200_OK
        /\ TransactionListResult(cred).ids =
                {t.id : t \in {x \in transactions :
                                  \E i \in investments, p \in portfolios :
                                      /\ i.id = x.investment
                                      /\ p.id = i.portfolio /\ p.user = A}}

\* C4 witness: A has a token, a portfolio, an investment and a transaction;
\* B has a portfolio with an investment; A's lists are non-empty and omit B's
C4_Witness ==
    \E cred \in ValidCreds, p \in portfolios, i \in investments :
        /\ p.user # Authenticate(cred) /\ i.portfolio = p.id
        /\ PortfolioListResult(cred).ids # {} /\ p.id \notin PortfolioListResult(cred).ids
        /\ InvestmentListResult(cred).ids # {} /\ i.id \notin InvestmentListResult(cred).ids
        /\ TransactionListResult(cred).ids # {}

\* No row of `d` refers to a row that `d` does not hold
NoOrphans(d) ==
    /\ \A p \in d.portfolios : p.user \in d.users
    /\ \A i \in d.investments : \E p \in d.portfolios : p.id = i.portfolio
    /\ \A t \in d.transactions : \E i \in d.investments : i.id = t.investment

\* C5: in every reachable state each portfolio's user, each investment's
\* portfolio and each transaction's investment exists; deleting a user leaves
\* none of the user's portfolios, of their investments and of their
\* transactions; deleting a portfolio (ORM or API) leaves none of its
\* investments and of their transactions, and leaves the users as they were.
C5_CascadeNoOrphans ==
    /\ NoOrphans(Cur)
    /\ \A u \in users :
        LET d == UserDeleteResult(u).db
            ps == {p.id : p \in {q \in portfolios : q.user = u}}
            is == {i.id : i \in {j \in investments : j.portfolio \in ps}}
        IN  /\ u \notin d.users
            /\ \A p \in d.portfolios : p.id \notin ps
            /\ \A i \in d.investments : i.id \notin is
            /\ \A t \in d.transactions : t.investment \notin is
            /\ \A t \in d.tokens : t.user # u
            /\ NoOrphans(d)
    /\ \A p \in portfolios :
        LET is == {i.id : i \in {j \in investments : j.portfolio = p.id}}
        IN  \A d \in {OrmPortfolioDeleteResult(p.id).db}
                     \cup {PortfolioDestroyResult(cred, p.id).db :
                              cred \in {c \in ValidCreds : Authenticate(c) = p.user}} :
                /\ p.id \notin Ids(d.portfolios)
                /\ \A i \in d.investments : i.id \notin is
                /\ \A t \in d.transactions : t.investment \notin is
                /\ d.users = users /\ p.user \in d.users
                /\ NoOrphans(d)

\* C5 witness: a user owns a portfolio that holds an investment that has a
\* transaction, and deleting the user or the portfolio removes all of them
C5_Witness ==
    \E p \in portfolios, i \in investments, t \in transactions :
        /\ i.portfolio = p.id /\ t.investment = i.id
        /\ t \notin UserDeleteResult(p.user).db.transactions
        /\ i \notin UserDeleteResult(p.user).db.investments
        /\ p \notin UserDeleteResult(p.user).db.portfolios
        /\ t \notin OrmPortfolioDeleteResult(p.id).db.transactions
        /\ i \notin OrmPortfolioDeleteResult(p.id).db.investments

\* C6: a portfolio that POST /api/portfolios/ stores belongs to the
\* requester whatever 'user' the body carries, and no API request creates a
\* portfolio of another user or changes the user of a stored one.
C6_CreateOwnedByRequester ==
    \A cred \in ValidCreds :
        /\ \A data \in PortfolioBodies :
            LET res == PortfolioCreateResult(cred, data) IN
            /\ res.status = HTTP_201_CREATED =>
                /\ Cardinality(res.db.portfolios \ portfolios) = 1
                /\ res.ids = Ids(res.db.portfolios \ portfolios)
            /\ \A p \in res.db.portfolios \ portfolios : p.user = Authenticate(cred)
        /\ \A res \in ApiResults(cred) :
            \A p \in res.db.portfolios :
                IF p.id \in Ids(portfolios)
                THEN p.user = OwnerOfPortfolio(p.id)
                ELSE p.user = Authenticate(cred)

\* C6 witness: A posts a body that names another existing user B as 'user';
\* the portfolio is created (201) and belongs to A
C6_Witness ==
    \E cred \in ValidCreds, u \in users, n \in Names :
        /\ u # Authenticate(cred)
        /\ LET res == PortfolioCreateResult(cred, [name |-> n, user |-> u])
           IN  /\ res.status = HTTP_201_CREATED
               /\ \E p \in res.db.portfolios :
                     p.id \in res.ids /\ p.user = Authenticate(cred) /\ p.name = n

\* C7: a request without valid credentials (no Authorization header, or a
\* key that belongs to no stored token) to any portfolio, investment or
\* transaction endpoint, to api_logout or to api_user_profile is answered
\* 403 and leaves the stored state unchanged.
C7_UnauthenticatedRejected ==
    \A cred \in Creds \ ValidCreds :
        \A res \in ApiResults(cred) :
            /\ res.status = HTTP_403_FORBIDDEN
            /\ res.db = Cur

\* C7 witness: rows of every table but the token table are stored, the key
\* of a deleted token is presented, and DELETE of a stored portfolio and
\* api_logout are answered 403
C7_Witness ==
    \E cred \in TokenKeys \ ValidCreds, p \in portfolios :
        /\ cred <= tokenSeq
        /\ investments # {} /\ transactions # {}
        /\ PortfolioDestroyResult(cred, p.id).status = HTTP_403_FORBIDDEN
        /\ ApiLogoutResult(NoCred).status = HTTP_403_FORBIDDEN

\* The requests C8 and C9 are about: POST /api/investments/ by A with a body
\* whose 'portfolio' is a stored portfolio of another user
CrossUserInvestmentPosts ==
    {x \in ValidCreds \X InvestmentBodies :
        /\ Has(x[2], "portfolio")
        /\ \E p \in portfolios : p.id = x[2].portfolio /\ p.user # Authenticate(x[1])}

\* C8: POST /api/investments/ by A naming a portfolio of another user B
\* stores no investment: the stored investments (and the rest of the stored
\* state) are the same before and after.
C8_CrossUserCreateStoresNothing ==
    \A x \in CrossUserInvestmentPosts :
        LET res == InvestmentCreateResult(x[1], x[2])
        IN  res.db.investments = investments /\ res.db = Cur

\* C8 witness: A has a token, B owns a portfolio, and A posts a body that is
\* valid in itself and names B's portfolio
C8_Witness ==
    \E x \in CrossUserInvestmentPosts :
        /\ InvestmentValid(NewInvestment, x[2], FALSE)
        /\ InvestmentCreateResult(x[1], x[2]).db.investments = investments

\* C9 (as claimed): POST /api/investments/ by A naming a portfolio of another
\* user B is answered 400, never a 2xx status.
C9_CrossUserCreateIs400 ==
    \A x \in CrossUserInvestmentPosts :
        InvestmentCreateResult(x[1], x[2]).status = HTTP_400_BAD_REQUEST

\* The requests C10 is about: POST /api/portfolios/ by a user who already
\* owns a portfolio with the submitted name
DuplicateNamePosts ==
    {x \in ValidCreds \X PortfolioBodies :
        /\ Has(x[2], "name")
        /\ \E p \in portfolios : p.user = Authenticate(x[1]) /\ p.name = x[2].name}

\* C10 (as claimed): POST /api/portfolios/ with a name the requester already
\* uses is answered 400, a validation error and not a server error, and
\* creates no second portfolio.
C10_DuplicateNameIs400 ==
    \A x \in DuplicateNamePosts :
        LET res == PortfolioCreateResult(x[1], x[2])
        IN  /\ res.status = HTTP_400_BAD_REQUEST
            /\ res.exc = ""
            /\ res.db.portfolios = portfolios

\* C11: the uniqueness constraints are scoped to the owner.  Creating a
\* portfolio for user u with a name that no portfolio of u has succeeds,
\* whichever other users use that name (ORM create and POST /api/portfolios/),
\* and creating an investment in portfolio p with a symbol that no investment
\* of p has succeeds, whichever other portfolios hold that symbol (ORM create
\* and POST /api/investments/ by the owner of p).
C11_UniquenessScopedToOwner ==
    /\ \A u \in users, n \in Names, a \in BOOLEAN :
        (~\E p \in portfolios : p.user = u /\ p.name = n) =>
            LET res == OrmPortfolioCreateResult(u, n, a)
            IN  /\ res.exc = ""
                /\ \E p \in res.db.portfolios \ portfolios :
                      p.id \in res.ids /\ p.user = u /\ p.name = n
    /\ \A cred \in ValidCreds, n \in Names :
        (~\E p \in portfolios : p.user = Authenticate(cred) /\ p.name = n) =>
            LET res == PortfolioCreateResult(cred, [name |-> n])
            IN  /\ res.status = HTTP_201_CREATED
                /\ \E p \in res.db.portfolios \ portfolios :
                      p.user = Authenticate(cred) /\ p.name = n
    /\ \A p \in portfolios, s \in InputSymbols :
        /\ (~\E i \in investments : i.portfolio = p.id /\ i.symbol = s) =>
            LET res == OrmInvestmentCreateResult(p.id, s, 1, 1)
            IN  /\ res.exc = ""
                /\ \E i \in res.db.investments \ investments :
                      i.id \in res.ids /\ i.portfolio = p.id /\ i.symbol = s
        /\ \A cred \in ValidCreds :
            (/\ p.user = Authenticate(cred)
             /\ ~\E i \in investments :
                   i.portfolio = p.id /\ i.symbol = validate_symbol(s)) =>
                LET res == InvestmentCreateResult(cred,
                              [portfolio |-> p.id, symbol |-> s,
                               quantity |-> 1, purchase_price |-> 1])
                IN  /\ res.status = HTTP_201_CREATED
                    /\ \E i \in res.db.investments \ investments :
                          i.portfolio = p.id /\ i.symbol = validate_symbol(s)

\* C11 witness: a name used by another user's portfolio and a symbol held in
\* another portfolio are accepted for a user and a portfolio that lack them
C11_Witness ==
    \E q \in portfolios, u \in users, j \in investments, p \in portfolios :
        /\ u # q.user
        /\ ~\E r \in portfolios : r.user = u /\ r.name = q.name
        /\ OrmPortfolioCreateResult(u, q.name, TRUE).exc = ""
        /\ p.id # j.portfolio
        /\ ~\E i \in investments : i.portfolio = p.id /\ i.symbol = j.symbol
        /\ OrmInvestmentCreateResult(p.id, j.symbol, 1, 1).exc = ""

\* The login requests C12 is about: a JSON object whose 'username' equals,
\* case-insensitively, the username or the e-mail address of the active
\* account `a`, and whose 'password' is the password of `a`
CorrectLogins(a) ==
    {body \in LoginBodies :
        /\ body.json = "object" /\ body.username # ""
        /\ a.is_active
        /\ iexact(a.username, body.username) \/ iexact(a.email, body.username)
        /\ body.password = a.password}

\* C12 (as claimed): api_login with the correct password and an identifier
\* that equals, case-insensitively, the username or the e-mail address of an
\* active user answers 200 with that user's data and a token key, and that
\* key authenticates later requests as that user.
C12_CorrectLoginSucceeds ==
    \A a \in accounts : \A body \in CorrectLogins(a) :
        LET res == ApiLoginResult(body)
        IN  /\ res.status = HTTP_200_OK
            /\ res.user = a.id
            /\ res.token # NoCred
            /\ AuthenticateIn(res.db, res.token) = a.id

\* The login requests with both fields present (a JSON object, neither
\* 'username' nor 'password' missing or empty)
CompleteLogins ==
    {body \in LoginBodies :
        body.json = "object" /\ body.username # "" /\ body.password # ""}

\* C13: api_login with an identifier that matches no user, or with a password
\* that is not the password of the user it matches, answers 401 'Invalid
\* credentials' and changes nothing: no token is created or returned and no
\* session is logged in.
C13_WrongCredentialsRejected ==
    \A body \in CompleteLogins :
        (\A a \in UsernameOrEmailMatches(body.username) : a.password # body.password) =>
            LET res == ApiLoginResult(body)
            IN  /\ res.status = HTTP_401_UNAUTHORIZED
                /\ res.error = "Invalid credentials"
                /\ res.token = NoCred /\ res.user = NoUser
                /\ res.db.tokens = tokens /\ res.db.sessions = sessions
                /\ res.db = Cur

\* C13 witness: an active user exists; a login with that username and a
\* wrong password and a login with an unknown identifier are answered 401
C13_Witness ==
    \E a \in accounts :
        /\ a.is_active
        /\ ApiLoginResult([json |-> "object", username |-> a.username,
                           password |-> "pw2"]).status = HTTP_401_UNAUTHORIZED
        /\ ApiLoginResult([json |-> "object", username |-> "carol",
                           password |-> a.password]).status = HTTP_401_UNAUTHORIZED

\* C14: api_login for a user whose is_active flag is false, with the correct
\* password, answers 401 'Invalid credentials' and issues no token.
C14_InactiveUserRejected ==
    \A a \in accounts : \A body \in CompleteLogins :
        (/\ ~a.is_active
         /\ iexact(a.username, body.username) \/ iexact(a.email, body.username)
         /\ body.password = a.password) =>
            LET res == ApiLoginResult(body)
            IN  /\ res.status = HTTP_401_UNAUTHORIZED
                /\ res.error = "Invalid credentials"
                /\ res.token = NoCred
                /\ res.db.tokens = tokens

\* C14 witness: a user without a token was deactivated, and the login with
\* the username and the correct password is answered 401
C14_Witness ==
    \E a \in accounts :
        /\ ~a.is_active
        /\ ~\E t \in tokens : t.user = a.id
        /\ ApiLoginResult([json |-> "object", username |-> a.username,
                           password |-> a.password]).status = HTTP_401_UNAUTHORIZED

\* C15 (as claimed): api_login answers a body that lacks the username or the
\* password 400 'Username and password are required' and a body that is not
\* valid JSON 400 'Invalid JSON format'; in both cases nothing is stored.
C15_BadBodyIs400 ==
    \A body \in LoginBodies \ CompleteLogins :
        LET res == ApiLoginResult(body)
        IN  /\ res.status = HTTP_400_BAD_REQUEST
            /\ res.error = (IF body.json \in {"invalid", "undecodable"}
                            THEN "Invalid JSON format"
                            ELSE "Username and password are required")
            /\ res.token = NoCred
            /\ res.db = Cur

\* The keys of the stored tokens
Keys(rows) == {t.key : t \in rows}

\* C16: a successful api_logout by user U leaves no token of U and leaves the
\* tokens of all other users as they were; the key that authenticated the
\* logout is rejected afterwards, and a key that is not stored is rejected by
\* every endpoint and is never stored again, also when U logs in again.
C16_LogoutRevokesToken ==
    /\ [](\A cred \in AuthCreds :
            LET U == Authenticate(cred)
                res == ApiLogoutResult(cred)
            IN  U # NoUser =>
                    /\ res.status = HTTP_200_OK
                    /\ ~\E t \in res.db.tokens : t.user = U
                    /\ AuthenticateIn(res.db, cred) = NoUser
                    /\ {t \in res.db.tokens : t.user # U} = {t \in tokens : t.user # U})
    /\ [](\A k \in (1..MaxAuthTokens) \ Keys(tokens) :
            /\ Authenticate(k) = NoUser
            /\ \A res \in ApiResults(k) : res.status = NotAuthenticatedStatus)
    /\ [][\A k \in (1..tokenSeq) \ Keys(tokens) : k \notin Keys(tokens')]_vars

\* C16 witness: the first key handed out is no longer stored, its user (or
\* another) has logged in again and holds the second key, and a logout with
\* the second key would succeed while the first key is rejected
C16_Witness ==
    /\ tokenSeq = 2
    /\ 1 \notin Keys(tokens) /\ 2 \in Keys(tokens)
    /\ Authenticate(2) # NoUser
    /\ ApiLogoutResult(2).status = HTTP_200_OK
    /\ ApiUserProfileResult(1).status = NotAuthenticatedStatus

\* C17: for every investment total_value is quantity times purchase_price;
\* for every portfolio age_days is the whole number of days between
\* created_at and now (the n with n days <= now - created_at < n + 1 days:
\* 0 for a portfolio just created, 5 for one created 5 days ago); reading the
\* properties changes no stored field.
C17_ComputedProperties ==
    /\ [](\A i \in investments :
            /\ total_value(i) = i.quantity * i.purchase_price
            /\ i.quantity = 0 => total_value(i) = 0)
    /\ [](\A p \in portfolios :
            /\ DayTicks * age_days(p) <= now - p.created_at
            /\ now - p.created_at < DayTicks * (age_days(p) + 1)
            /\ p.created_at = now => age_days(p) = 0
            /\ now - p.created_at = 5 * DayTicks => age_days(p) = 5)
    /\ [][CalcRead => UNCHANGED <<portfolios, investments, transactions, users, accounts>>]_vars

\* C17 witness: a portfolio created 5 days (and half a day) ago has age 5, and
\* an investment with quantity 2 and price 3 has total value 6
C17_Witness ==
    \E p \in portfolios, i \in investments :
        /\ now - p.created_at = 5 * DayTicks + 1 /\ age_days(p) = 5
        /\ i.quantity = 2 /\ i.purchase_price = 3 /\ total_value(i) = 6

\* The sum of total_value over the investments with an id up to n
RECURSIVE TotalValueUpTo(_)
TotalValueUpTo(n) ==
    IF n = 0 THEN 0
    ELSE TotalValueUpTo(n - 1)
         + (IF \E i \in investments : i.id = n
            THEN total_value(CHOOSE i \in investments : i.id = n) ELSE 0)

\* C18: Investment.objects.total_invested() is the sum over all stored
\* investments of quantity times purchase_price, that is of their total_value
\* (0 for an investment with quantity 0), and is 0 when none is stored.
C18_TotalInvested ==
    /\ total_invested = TotalValueUpTo(MaxInvestments)
    /\ investments = {} => total_invested = 0
    /\ \A i \in investments :
          i.quantity = 0 => total_invested = SumQuantityTimesPrice(investments \ {i})

\* C18 witness: two investments are stored, one of them with quantity 0, and
\* the total is the total value of the other one
C18_Witness ==
    \E i, j \in investments :
        /\ i.quantity = 0 /\ j.quantity = 2 /\ j.purchase_price = 3
        /\ total_invested = 6

\* The messages a client has been sent on its connection
Sent(c) == consumers[c].sent

SentTypes(c) == {Sent(c)[i].type : i \in 1..Len(Sent(c))}

C20_ConfirmationThenPriceUpdates ==
    /\ [](\A c \in Connections :
            Sent(c) # <<>> => /\ consumers[c].accepted
                              /\ Sent(c)[1].type = "connection_established")
    /\ [](\A c \in Connections : \A i \in PriceUpdates(consumers[c]) :
            \E j \in 1..(i - 1) : Sent(c)[j].type = "connection_established")
    /\ \A c \in Connections :
            (consumers[c].accepted)
                ~> \/ PriceUpdates(consumers[c]) # {}
                   \/ consumers[c].closed
                   \/ update_task(consumers[c]) = "done"

\* A client that has sent nothing holds the confirmation and two price updates
C20_Witness ==
    \E c \in Connections :
        /\ consumers[c].received = 0
        /\ ~consumers[c].closed
        /\ [i \in 1..Len(Sent(c)) |-> Sent(c)[i].type]
               = <<"connection_established", "price_update", "price_update">>

\* C22: at any time a connection has at most one price-update loop that is
\* not done, and a start_updates message received while a loop is running
\* creates no second loop.
C22_AtMostOneLoop ==
    \A c \in Connections :
        /\ Cardinality(LiveTasks(consumers[c])) <= 1
        /\ LiveTasks(consumers[c]) # {}
               => receive(consumers[c], "start_updates").tasks = consumers[c].tasks

\* A second loop, started after a stop_updates, is running, and a further
\* start_updates would leave the tasks as they are
C22_Witness ==
    \E c \in Connections :
        /\ Dispatching(c)
        /\ consumers[c].tasks = <<"done", "sleeping">>
        /\ receive(consumers[c], "start_updates").tasks = consumers[c].tasks

C28_NoLoopAfterDisconnect ==
    \A c \in Connections :
        consumers[c].closed => LiveTasks(consumers[c]) = {}

\* The stored users an identifier names, compared without regard to case
\* with the username and with the e-mail address
NamedBy(username) ==
    {a \in accounts : lower(a.username) = lower(username)
                      \/ lower(a.email) = lower(username)}

\* C24: UsernameOrEmailBackend.authenticate returns a user only if exactly one
\* stored user matches the identifier by username or by e-mail address without
\* regard to case, that user is active and the password is the user's; it then
\* returns that user. In every other case -- no match, several matches, an
\* inactive account, a wrong password, a missing argument, an internal error --
\* it returns None. It never raises and never changes stored data.
C24_AuthenticateOrNone ==
    \A username \in LoginIdentifiers \cup {None},
       password \in LoginPasswords \cup {None}, error \in BOOLEAN :
        LET res == BackendAuthenticateResult(username, password, error)
            good == {a \in NamedBy(username) :
                        /\ ~error
                        /\ username # None /\ password # None
                        /\ Cardinality(NamedBy(username)) = 1
                        /\ a.is_active
                        /\ a.password = password}
        IN  /\ res.exc = ""
            /\ res.db = Cur
            /\ res.user # NoUser <=> good # {}
            /\ res.user # NoUser => res.user \in {a.id : a \in good}

\* One user's username is another user's e-mail address: that identifier
\* authenticates nobody, while the other user's e-mail address authenticates
\* its owner
C24_Witness ==
    \E a, b \in accounts :
        /\ a.id # b.id
        /\ a.username = "bob" /\ b.email = "bob" /\ a.email = "a@x.io"
        /\ a.is_active /\ b.is_active
        /\ BackendAuthenticateResult("bob", AuthPassword, FALSE).user = NoUser
        /\ BackendAuthenticateResult("a@x.io", AuthPassword, FALSE).user = a.id
        /\ BackendAuthenticateResult("a@x.io", "pw2", FALSE).user = NoUser

\* The tokens of user u
TokensOf(u) == {t \in tokens : t.user = u}

\* C26: a user has at most one token at any time. A successful api_login of
\* a user who holds a token returns that token's key with token_created
\* false and stores no other token; a successful api_login of a user who holds
\* none (no login yet, or an api_logout since the last login) returns
\* token_created true and the key of the one token the user then holds.
C26_OneTokenPerUser ==
    /\ \A u \in users : Cardinality(TokensOf(u)) <= 1
    /\ \A body \in LoginBodies :
          LET res == ApiLoginResult(body)
              mine == {t \in res.db.tokens : t.user = res.user}
          IN  res.status = HTTP_200_OK =>
                /\ mine = {[key |-> res.token, user |-> res.user]}
                /\ res.token_created <=> TokensOf(res.user) = {}
                /\ ~res.token_created => res.db.tokens = tokens
    /\ \A cred \in AuthCreds :
          LET out == ApiLogoutResult(cred)
          IN  out.status = HTTP_200_OK =>
                {t \in out.db.tokens : t.user = Authenticate(cred)} = {}

\* A user holds the second key handed out and a further login returns it
\* with token_created false, while a user without a token gets a new one
C26_Witness ==
    \E a, b \in LoginBodies :
        /\ ApiLoginResult(a).status = HTTP_200_OK
        /\ ApiLoginResult(a).token = 2
        /\ ~ApiLoginResult(a).token_created
        /\ ApiLoginResult(b).status = HTTP_200_OK
        /\ ApiLoginResult(b).token_created

\* The investments of `d` in portfolios that user u does not own, and the
\* transactions of `d` on those investments
InvestmentsOfOthers(d, u) ==
    {i \in d.investments : \E p \in d.portfolios : p.id = i.portfolio /\ p.user # u}

TransactionsOfOthers(d, u) ==
    {t \in d.transactions : t.investment \in Ids(InvestmentsOfOthers(d, u))}

\* What the investment and transaction create and update requests of a
\* client come to
InvestmentAndTransactionWrites(cred) ==
    {InvestmentCreateResult(cred, data) : data \in InvestmentBodies}
    \cup {InvestmentUpdateResult(cred, x[1], x[2], x[3]) :
            x \in InvestmentIds \X InvestmentBodies \X BOOLEAN}
    \cup {TransactionCreateResult(cred, data) : data \in TransactionBodies}
    \cup {TransactionUpdateResult(cred, x[1], x[2], x[3]) :
            x \in TransactionIds \X TransactionBodies \X BOOLEAN}

\* C29: an investment or transaction create or update request authenticated
\* as user A leaves the investments in the portfolios of the other users, and
\* the transactions on them, as they were.
C29_NoWriteIntoForeignObjects ==
    \A cred \in ValidCreds : \A res \in InvestmentAndTransactionWrites(cred) :
        /\ InvestmentsOfOthers(res.db, Authenticate(cred))
               = InvestmentsOfOthers(Cur, Authenticate(cred))
        /\ TransactionsOfOthers(res.db, Authenticate(cred))
               = TransactionsOfOthers(Cur, Authenticate(cred))

\* The first run of a task sent with the given arguments, no error coming
\* from outside
FirstRun(task, user_id, portfolio_id) ==
    RunTask([NoRequest EXCEPT !.task = task, !.state = "PENDING",
                              !.user_id = user_id, !.portfolio_id = portfolio_id],
            FALSE, cache, logs)

\* The runs and the delay the claim grants each task: the first run and the
\* retries
GrantedRuns ==
    [refresh_portfolio_analytics |-> [runs |-> 4, countdown |-> 300],
     cleanup_old_logs |-> [runs |-> 3, countdown |-> 600],
     generate_portfolio_report |-> [runs |-> 3, countdown |-> 300],
     send_portfolio_notifications |-> [runs |-> 3, countdown |-> 300],
     health_check |-> [runs |-> 1, countdown |-> 0]]

\* C21: a task request is run at most a fixed number of times -- 4 for
\* refresh_portfolio_analytics, 3 for cleanup_old_logs, for
\* generate_portfolio_report and for send_portfolio_notifications -- each
\* retry follows a run that raised and waits the task's fixed delay (300 s,
\* 600 s for cleanup_old_logs), and a run that raises when the retries are
\* used up fails the request for good.
C21_BoundedRetries ==
    request.task \in TaskNames =>
        LET granted == GrantedRuns[request.task]
            raising == RunTask(request, request.task # "health_check", cache, logs)
        IN  /\ request.runs <= granted.runs
            /\ request.state \in {"PENDING", "RETRY"} => request.runs = request.retries
            /\ request.state = "RETRY" => request.countdown = granted.countdown
            /\ request.state = "FAILURE" => request.runs = granted.runs
            /\ request.state \in {"SUCCESS", "FAILURE"} => request.runs >= 1
            /\ (request.state \in {"PENDING", "RETRY"} /\ request.task # "health_check") =>
                   /\ raising.request.state \in {"RETRY", "FAILURE"}
                   /\ raising.request.state = "FAILURE"
                          <=> request.runs + 1 = granted.runs

\* refresh_portfolio_analytics has raised four times and has failed, and
\* no further run of it is due
C21_Witness ==
    /\ request.task = "refresh_portfolio_analytics"
    /\ request.state = "FAILURE"
    /\ request.runs = 4 /\ request.retries = 3 /\ request.countdown = 300

\* C25: for an existing user with at least one active portfolio (the one of
\* portfolio_id when given) generate_portfolio_report returns 'success' with
\* portfolios_count the number of those portfolios and caches the report under
\* the user's key of the day; for an unknown user or a user without such a
\* portfolio it returns 'error', is not retried and leaves the cache alone.
C25_PortfolioReport ==
    \A user_id \in UserIds, portfolio_id \in {NoPk} \cup PortfolioIds :
        LET after == FirstRun("generate_portfolio_report", user_id, portfolio_id)
            matching == {p \in portfolios :
                            /\ p.user = user_id /\ p.is_active
                            /\ portfolio_id = NoPk \/ p.id = portfolio_id}
            key == CacheKey("portfolio_report_user_", user_id, Today)
        IN  /\ after.request.state = "SUCCESS"
            /\ IF user_id \in users /\ matching # {}
               THEN /\ after.request.status = "success"
                    /\ after.request.count = Cardinality(matching)
                    /\ \E e \in after.cache :
                          e.key = key /\ e.value.count = Cardinality(matching)
               ELSE /\ after.request.status = "error"
                    /\ after.cache = cache

\* C27: cleanup_old_logs ends with 'success' and without a retry whether or
\* not the logs directory exists; it removes exactly the regular files named
\* *.log that are older than 30 days and reports their number, which is 0
\* when there is no directory.
C27_CleanupSucceeds ==
    LET after == FirstRun("cleanup_old_logs", NoPk, NoPk)
        stale == {f \in logs.files : f.ext = ".log" /\ f.kind = "file" /\ f.old}
    IN  /\ after.request.state = "SUCCESS"
        /\ after.request.status = "success"
        /\ after.logs.exists = logs.exists
        /\ after.logs.files = logs.files \ stale
        /\ after.request.count = Cardinality(stale)
        /\ ~logs.exists => after.request.count = 0

\* C30: for every active user with an active portfolio, once
\* refresh_portfolio_analytics has run, PortfolioAnalyticsView.get_context_data
\* serves that user the entry the task has just written.
C30_ViewReadsRefreshedEntry ==
    \A a \in accounts :
        (a.is_active /\ \E p \in portfolios : p.user = a.id /\ p.is_active) =>
            LET refreshed == FirstRun("refresh_portfolio_analytics", NoPk, NoPk).cache
            IN  /\ \E e \in refreshed : e.key = user_cache_key(a.id)
                /\ get_context_data(refreshed, a.id).analytics
                       = cache_get(refreshed, user_cache_key(a.id))

====
